---- MODULE Spec2Model ----
(***************************************************************************)
(* Model of the hoyt-bot hedging core:                                     *)
(*   - the decision function  (src/src/utils/calculations.ts)              *)
(*   - the action executor    (src/src/modules/hedgeController.ts)         *)
(*   - the exchange client    (src/unnamed/part_000, HyperliquidClient)    *)
(*   - the bot and its timer  (src/src/types.ts, HoytBot)                  *)
(*                                                                         *)
(* Specifications.  SpecDecide and SpecDeviation apply determineHedgeAction*)
(* and calculateDeviation to bounded inputs; SpecClient runs one           *)
(* makeRequest / placeOrder; SpecHedge runs one updateHedgePosition with   *)
(* the client's outcomes taken as given; SpecTick runs it with the order   *)
(* carried by makeRequest; SpecBot runs main, start, the check timer and   *)
(* the check cycles.  SpecOverlap runs an order request while a later      *)
(* check sends its own; SpecPositions runs getPositions / getPosition on   *)
(* a response body; SpecUpdate runs successive updatePositions calls;      *)
(* SpecLifecycle drives the exported HoytBot through initialize, start     *)
(* and stop in any order; SpecConverge runs successive ticks of            *)
(* updateHedgePosition whose orders fill in full; SpecMonitor runs the     *)
(* bot over many monitoring periods, with the error monitors and the       *)
(* restart, each check cycle taken as a whole.  SpecBot and SpecLifecycle  *)
(* run MaxTicks check cycles, fewer than the five check intervals of a     *)
(* monitoring period, so no error monitor fires in them.  The variables    *)
(* of the parts a specification does not run stay at their idle values.    *)
(*                                                                         *)
(* Numbers.  USD amounts are integers (whole USD).  rebalanceThreshold is  *)
(* a whole percentage p standing for the fraction p/100, as config.ts      *)
(* builds it (TRASHOLD_REBALANCE / 100).  Funding rates and the funding    *)
(* tolerance are integers in units of 0.001 (0.1 %), so the default        *)
(* tolerance 0.5/100 is 5.  A comparison of quotients is cross-multiplied; *)
(* a division by zero yields Infinity or NaN as in IEEE-754 and is spelled *)
(* out where the code can reach it.  calculateDeviation alone works on     *)
(* amounts in units of 1e-7 USD and returns hundredths of a percent.       *)
(*                                                                         *)
(* Text.  Error messages are sequences of one-character strings, so that   *)
(* String.prototype.includes is a real substring test.                     *)
(***************************************************************************)
EXTENDS Integers, Sequences, FiniteSets, TLC

VARIABLES
    \* ---- determineHedgeAction's call frame ----
    lpPosition,          \* LPPosition argument
    hedgePosition,       \* HyperliquidPosition | null argument
    rebalanceThreshold,  \* percentage p, the fraction p/100
    decision,            \* { action, sizeChange } returned, or NoDecision
    \* ---- HedgeController.updateHedgePosition ----
    pc,                  \* position of the async method
    venuePosition,       \* the venue's position row for the coin (or null)
    venueFunding,        \* the venue's funding rate (units of 0.001)
    marketData,          \* result of getMarketData() at line 85
    fundingSeen,         \* marketData.fundingRate inside checkFundingRate
    failures,            \* set of reads / calls that failed during the tick
    calls,               \* client operations invoked, in order
    orders,              \* orders handed to placeOrder, in order
    results,             \* ExecutionResults returned, in order
    \* ---- HyperliquidClient.makeRequest / placeOrder ----
    rpc,                 \* position of makeRequest / its caller
    method,              \* 'GET' | 'POST'
    retries,             \* the retries parameter (maxAttempts)
    attempt,             \* loop counter
    waits,               \* backoff delays slept so far, in order
    history,             \* outcome of every fetch attempt, in order
    lastError,           \* lastError of makeRequest
    thrown,              \* error makeRequest threw, or NoError
    response,            \* parsed body makeRequest returned
    orderResponse,       \* HyperliquidOrderResponse of placeOrder
    \* ---- what makeRequest puts on the wire ----
    clock,               \* Date.now() when the request is made
    data,                \* the data argument of makeRequest (or NoData)
    headers,             \* the headers object built at lines 75-95
    sent,                \* every fetch(url, init) issued, in order
    \* ---- calculateDeviation's call frame ----
    devArgs,             \* (lpPendleExposure, hedgeSize) passed, or NoDevArgs
    deviation,           \* the number returned, or NoDeviation
    \* ---- HoytBot (src/src/types.ts) and its surroundings ----
    mainPc,              \* position of main() / start()
    status,              \* state.status
    interval,            \* TRUE while this.interval holds a live timer
    stateLp,             \* state.lpPosition
    stateHedge,          \* state.hedgePosition
    errors,              \* state.errors, each entry by its serial number
    lastAction,          \* state.lastAction
    ticks,               \* the executeCheck calls made so far, in order
    chainLp,             \* the LP position on chain
    botOrders,           \* orders the venue received, with their tick
    strayTimers,         \* live check timers this.interval no longer holds
    monitors,            \* the live error-monitor timers, in order of creation
    starts,              \* the start() / restart() calls awaiting something
    \* ---- HyperliquidClient.getPositions / getPosition ----
    readPc,              \* position of the getPosition call
    positionsBody,       \* the parsed body of GET /user/positions
    positions,           \* the array getPositions returned
    found                \* what getPosition(coin) returned

decideVars == <<lpPosition, hedgePosition, rebalanceThreshold, decision>>
hedgeVars == <<pc, venuePosition, venueFunding, marketData, fundingSeen,
               failures, calls, orders, results>>
clientVars == <<rpc, method, retries, attempt, waits, history, lastError,
                thrown, response, orderResponse>>
wireVars == <<clock, data, headers, sent>>
telemetryVars == <<devArgs, deviation>>
timerVars == <<strayTimers, monitors, starts>>
botVars == <<mainPc, status, interval, stateLp, stateHedge, errors, lastAction,
             ticks, chainLp, botOrders, timerVars>>
readVars == <<readPc, positionsBody, positions, found>>
vars == <<decideVars, hedgeVars, clientVars, wireVars, telemetryVars, botVars, readVars>>

\* what the actions of one part leave alone
outsideDecide == <<hedgeVars, clientVars, wireVars, telemetryVars, botVars, readVars>>
outsideHedge == <<clientVars, wireVars, botVars, readVars>>
outsideClient == <<decideVars, hedgeVars, telemetryVars, botVars, readVars>>

----------------------------------------------------------------------------
(* Bounds of the model *)

MaxExposure == 12
MaxToken1 == 2
MaxHedge == 12

\* rebalance thresholds tried, in percent (config default: 5)
ThresholdPcts == {5, 10, 25}

----------------------------------------------------------------------------
(* Values *)

Abs(x) == IF x < 0 THEN -x ELSE x

Min(a, b) == IF a < b THEN a ELSE b

\* HedgingAction (types.ts)
HedgingAction == {"INCREASE_SHORT", "DECREASE_SHORT", "NO_ACTION", "CLOSE_POSITIONS"}

\* null for a HyperliquidPosition
NullPosition == [isNull |-> TRUE, size |-> 0, side |-> "SHORT"]

\* A position row as getPositions builds it: side from the sign of size
Position(sz) == [isNull |-> FALSE, size |-> sz,
                 side |-> IF sz > 0 THEN "LONG" ELSE "SHORT"]

\* LP positions LPWatcher.getLPPositionDetails / getCombinedLPPosition can
\* return: both exposures >= 0 and totalValueUSD their sum.
LPPositionOf(t0, t1) ==
    [token0Exposure |-> t0, token1Exposure |-> t1, totalValueUSD |-> t0 + t1]

LPPositions == {LPPositionOf(t0, t1) : t0 \in 0..MaxExposure, t1 \in 0..MaxToken1}

\* LPPosition | null: the null of state.lpPosition
NullLPPosition == [token0Exposure |-> 0, token1Exposure |-> 0, totalValueUSD |-> 0,
                   isNull |-> TRUE]

HedgePositions == {NullPosition} \cup {Position(s) : s \in (-MaxHedge)..MaxHedge}

NoDecision == [action |-> "NONE", sizeChange |-> 0]

----------------------------------------------------------------------------
(* calculations.ts *)

calculateRequiredHedgeSize_total(lp) == lp.totalValueUSD

calculateRequiredHedgeSize(lp) == lp.token0Exposure

\* `deviation > rebalanceThreshold` with
\*   deviation = Math.abs(required - current) / required
\* required = 0: x/0 is Infinity for x > 0 (Infinity > t holds) and 0/0 is
\* NaN (NaN > t is false).  required > 0: cross-multiplied.  required < 0
\* does not occur (exposures are >= 0).
deviationExceeds_geq(required, current, thPct) ==
    IF required = 0
    THEN Abs(required - current) > 0
    ELSE Abs(required - current) * 100 >= thPct * required

deviationExceeds(required, current, thPct) ==
    IF required = 0
    THEN Abs(required - current) > 0
    ELSE Abs(required - current) * 100 > thPct * required

\* lines 86-100: the direction of a rebalance
rebalance_signed(required, current) ==
    IF required > current
    THEN [action |-> "INCREASE_SHORT", sizeChange |-> required - current]
    ELSE [action |-> "DECREASE_SHORT", sizeChange |-> required - current]

rebalance_swapped(required, current) ==
    IF required > current
    THEN [action |-> "DECREASE_SHORT", sizeChange |-> required - current]
    ELSE [action |-> "INCREASE_SHORT", sizeChange |-> current - required]

rebalance(required, current) ==
    IF required > current
    THEN [action |-> "INCREASE_SHORT", sizeChange |-> required - current]
    ELSE [action |-> "DECREASE_SHORT", sizeChange |-> current - required]

\* line 77: Math.abs(hedgePosition.size)
currentHedgeSize_shortPositive(hedge) == 0 - hedge.size

currentHedgeSize(hedge) == Abs(hedge.size)

determineHedgeAction(lp, hedge, thPct) ==
    IF lp.totalValueUSD = 0
    THEN [action |-> "CLOSE_POSITIONS",
          sizeChange |-> IF ~hedge.isNull THEN Abs(hedge.size) ELSE 0]
    ELSE LET requiredHedgeSize == calculateRequiredHedgeSize(lp)
         IN  IF hedge.isNull /\ requiredHedgeSize > 0
             THEN [action |-> "INCREASE_SHORT", sizeChange |-> requiredHedgeSize]
             ELSE IF ~hedge.isNull
                     /\ deviationExceeds(requiredHedgeSize, currentHedgeSize(hedge), thPct)
                  THEN rebalance(requiredHedgeSize, currentHedgeSize(hedge))
                  ELSE [action |-> "NO_ACTION", sizeChange |-> 0]

isFundingRateAcceptable_signed(fundingRate, fundingTolerance) ==
    fundingRate <= fundingTolerance

isFundingRateAcceptable(fundingRate, fundingTolerance) ==
    Abs(fundingRate) <= fundingTolerance

\* calculateDeviation, lines 32-45.  Its two arguments are amounts in
\* units of 1e-7 USD, so that the literal 0.000001 of line 37 is 10 units;
\* the percentage it returns has two decimals and is held in hundredths of
\* a percent (100 % is 10000).
Epsilon == 10

UsdUnits == 1000000 * Epsilon

RECURSIVE GCD(_, _)
GCD(a, b) == IF b = 0 THEN a ELSE GCD(b, a % b)

\* parseFloat((num / den * 100).toFixed(2)) in hundredths of a percent, for
\* num >= 0 and den # 0: Number.prototype.toFixed rounds to the nearest
\* value with two decimals, a tie going to the larger magnitude.  The
\* quotient is reduced first to keep the products small.
percentToFixed2(num, den) ==
    LET g == GCD(num, Abs(den))
        n == num \div g
        d == Abs(den) \div g
        magnitude == (2 * n * 10000 + d) \div (2 * d)
    IN  IF den < 0 THEN -magnitude ELSE magnitude

calculateDeviation_atEpsilon(lpPendleExposure, hedgeSize) ==
    IF hedgeSize = 0 \/ Abs(hedgeSize) <= Epsilon
    THEN (IF lpPendleExposure > 0 THEN 10000 ELSE 0)
    ELSE percentToFixed2(Abs(lpPendleExposure - hedgeSize), hedgeSize)

calculateDeviation(lpPendleExposure, hedgeSize) ==
    IF hedgeSize = 0 \/ Abs(hedgeSize) < Epsilon
    THEN (IF lpPendleExposure > 0 THEN 10000 ELSE 0)
    ELSE percentToFixed2(Abs(lpPendleExposure - hedgeSize), hedgeSize)

----------------------------------------------------------------------------
(* HyperliquidClient (src/unnamed/part_000): text *)

\* String.prototype.includes
Includes(text, needle) ==
    \E i \in 1..(Len(text) - Len(needle) + 1) :
        SubSeq(text, i, i + Len(needle) - 1) = needle

\* 'network', 'abort', 'timeout' (lines 129-131)
NetworkWord == <<"n", "e", "t", "w", "o", "r", "k">>
AbortWord == <<"a", "b", "o", "r", "t">>
TimeoutWord == <<"t", "i", "m", "e", "o", "u", "t">>

\* `API error: ${response.status} - ${errorText}` (line 112)
ApiErrorPrefix == <<"A", "P", "I", " ", "e", "r", "r", "o", "r", ":", " ">>
ApiErrorMessage(httpStatus, errorText) == ApiErrorPrefix \o httpStatus \o <<" ", "-", " ">> \o errorText

\* 'API returned null or undefined response' (line 119)
NullResponseMessage == <<"A", "P", "I", " ", "r", "e", "t", "u", "r", "n", "e", "d", " ", "n", "u", "l", "l", " ", "o", "r", " ", "u", "n", "d", "e", "f", "i", "n", "e", "d", " ", "r", "e", "s", "p", "o", "n", "s", "e">>

\* `Request signing failed: ${signError.message}` (line 93)
SigningFailedMessage == <<"R", "e", "q", "u", "e", "s", "t", " ", "s", "i", "g", "n", "i", "n", "g", " ", "f", "a", "i", "l", "e", "d", ":", " ", "b", "a", "d", " ", "k", "e", "y">>

\* fetch rejects with TypeError('fetch failed') when the connection fails
FetchFailedMessage == <<"f", "e", "t", "c", "h", " ", "f", "a", "i", "l", "e", "d">>

\* AbortSignal.timeout(30000) rejects the fetch with a DOMException named
\* TimeoutError: 'The operation was aborted due to timeout'
TimeoutMessage == <<"T", "h", "e", " ", "o", "p", "e", "r", "a", "t", "i", "o", "n", " ", "w", "a", "s", " ", "a", "b", "o", "r", "t", "e", "d", " ", "d", "u", "e", " ", "t", "o", " ", "t", "i", "m", "e", "o", "u", "t">>

\* response.json() on a body that is not JSON: SyntaxError
BadJsonMessage == <<"U", "n", "e", "x", "p", "e", "c", "t", "e", "d", " ", "t", "o", "k", "e", "n", " ", "<", " ", "i", "n", " ", "J", "S", "O", "N", " ", "a", "t", " ", "p", "o", "s", "i", "t", "i", "o", "n", " ", "0">>

\* 'Unknown error' (line 256)
UnknownErrorText == <<"U", "n", "k", "n", "o", "w", "n", " ", "e", "r", "r", "o", "r">>

\* Non-2xx responses the venue or a gateway in front of it may send:
\* status and body text
HttpErrors ==
    { [status |-> <<"4", "0", "0">>, body |-> <<"i", "n", "s", "u", "f", "f", "i", "c", "i", "e", "n", "t", " ", "m", "a", "r", "g", "i", "n">>],
      [status |-> <<"5", "0", "4">>, body |-> <<"g", "a", "t", "e", "w", "a", "y", " ", "t", "i", "m", "e", "o", "u", "t">>],
      [status |-> <<"5", "0", "0">>, body |-> <<>>] }

\* Parsed 2xx bodies: the venue's { status, error?, id? }; "none" stands
\* for a field the body does not have
ResponseBodies ==
    { [status |-> "success", error |-> <<>>, id |-> "order-1"],
      [status |-> "error", error |-> <<"i", "n", "s", "u", "f", "f", "i", "c", "i", "e", "n", "t", " ", "m", "a", "r", "g", "i", "n">>, id |-> "none"],
      [status |-> "error", error |-> <<>>, id |-> "none"],
      [status |-> "none", error |-> <<>>, id |-> "order-2"] }

----------------------------------------------------------------------------
(* Idle values of the parts a specification does not run *)

HedgeIdle ==
    /\ pc = "off"
    /\ venuePosition = NullPosition
    /\ venueFunding = 0
    /\ marketData = [price |-> 0, fundingRate |-> 0]
    /\ fundingSeen = 0
    /\ failures = {}
    /\ calls = <<>>
    /\ orders = <<>>
    /\ results = <<>>

NoError == [name |-> "none", message |-> <<>>]

NoResponse == [status |-> "none", error |-> <<>>, id |-> "none"]

NoOrderResponse == [escaped |-> FALSE, status |-> "none", error |-> <<>>, id |-> "none"]

NoData == [type |-> "", coin |-> "", side |-> "", size |-> <<>>,
           price |-> "", reduceOnly |-> FALSE]

NoHeader == <<>>

NoSignature == [algorithm |-> "none", key |-> "", message |-> <<>>]

WireIdle ==
    /\ clock = 0
    /\ data = NoData
    /\ headers = [contentType |-> "", signature |-> NoSignature, nonce |-> NoHeader]
    /\ sent = <<>>

NoDevArgs == [lpPendleExposure |-> 0, hedgeSize |-> 0, passed |-> FALSE]

NoDeviation == [returned |-> FALSE, value |-> 0]

TelemetryIdle ==
    /\ devArgs = NoDevArgs
    /\ deviation = NoDeviation

NoResult == [success |-> FALSE, action |-> "NONE", details |-> <<>>, error |-> <<>>]

TimersIdle ==
    /\ strayTimers = 0
    /\ monitors = <<>>
    /\ starts = <<>>

BotIdle ==
    /\ TimersIdle
    /\ mainPc = "off"
    /\ status = "INITIALIZED"
    /\ interval = FALSE
    /\ stateLp = NullLPPosition
    /\ stateHedge = NullPosition
    /\ errors = <<>>
    /\ lastAction = NoResult
    /\ ticks = <<>>
    /\ chainLp = NullLPPosition
    /\ botOrders = <<>>

NoBody == [hasPositions |-> FALSE, rows |-> <<>>]

NoRow == [coin |-> "", position |-> NullPosition]

ReadIdle ==
    /\ readPc = "off"
    /\ positionsBody = NoBody
    /\ positions = <<>>
    /\ found = NoRow

ClientIdle ==
    /\ rpc = "off"
    /\ method = "GET"
    /\ retries = 0
    /\ attempt = 0
    /\ waits = <<>>
    /\ history = <<>>
    /\ lastError = NoError
    /\ thrown = NoError
    /\ response = NoResponse
    /\ orderResponse = NoOrderResponse

----------------------------------------------------------------------------
(* SpecDecide: determineHedgeAction applied to every bounded input *)

InitDecide ==
    /\ lpPosition \in LPPositions
    /\ hedgePosition \in HedgePositions
    /\ rebalanceThreshold \in ThresholdPcts
    /\ decision = NoDecision
    /\ HedgeIdle
    /\ ClientIdle
    /\ WireIdle
    /\ TelemetryIdle
    /\ BotIdle
    /\ ReadIdle

Decide ==
    /\ decision = NoDecision
    /\ decision' = determineHedgeAction(lpPosition, hedgePosition, rebalanceThreshold)
    /\ UNCHANGED <<lpPosition, hedgePosition, rebalanceThreshold>>
    /\ UNCHANGED outsideDecide

NextDecide == Decide

SpecDecide == InitDecide /\ [][NextDecide]_vars

----------------------------------------------------------------------------
(* Claims about determineHedgeAction (checked under SpecDecide) *)

Decided == decision # NoDecision

ExposureToHedge == lpPosition.token0Exposure

CurrentHedgeSize == Abs(hedgePosition.size)

\* C1: for every input whose exposure to hedge is 0, with or without a
\* hedge, the decision is CLOSE_POSITIONS and sizeChange is the absolute
\* size of the existing hedge (0 when there is none); a required hedge of 0
\* with an existing hedge never reaches the deviation division.
C1_ZeroExposureCloses ==
    (Decided /\ ExposureToHedge = 0) =>
        /\ decision.action = "CLOSE_POSITIONS"
        /\ decision.sizeChange =
               (IF hedgePosition.isNull THEN 0 ELSE CurrentHedgeSize)

\* C2: with hedgePosition == null and exposure > 0 the decision is
\* INCREASE_SHORT and sizeChange is the full exposure.
C2_NoHedgeOpensFullExposure ==
    (Decided /\ hedgePosition.isNull /\ ExposureToHedge > 0) =>
        /\ decision.action = "INCREASE_SHORT"
        /\ decision.sizeChange = ExposureToHedge

C2_Witness ==
    /\ Decided
    /\ hedgePosition.isNull
    /\ ExposureToHedge > 0
    /\ lpPosition.token1Exposure > 0
    /\ decision.action = "INCREASE_SHORT"

\* C3: with an exposure > 0 and a hedge, when
\* abs(required - current) / required > rebalanceThreshold the decision is
\* INCREASE_SHORT by required - current if required > current, and
\* otherwise DECREASE_SHORT by current - required.
C3_AboveThresholdRebalances ==
    (/\ Decided
     /\ ~hedgePosition.isNull
     /\ ExposureToHedge > 0
     /\ Abs(ExposureToHedge - CurrentHedgeSize) * 100
            > rebalanceThreshold * ExposureToHedge) =>
        IF ExposureToHedge > CurrentHedgeSize
        THEN /\ decision.action = "INCREASE_SHORT"
             /\ decision.sizeChange = ExposureToHedge - CurrentHedgeSize
        ELSE /\ decision.action = "DECREASE_SHORT"
             /\ decision.sizeChange = CurrentHedgeSize - ExposureToHedge

C3_Witness ==
    /\ Decided
    /\ hedgePosition = Position(-10)
    /\ lpPosition.token0Exposure = 8
    /\ rebalanceThreshold = 10
    /\ decision = [action |-> "DECREASE_SHORT", sizeChange |-> 2]

\* C4: with an exposure > 0 and a hedge, when the deviation is less than or
\* equal to rebalanceThreshold (exactly equal included) the decision is
\* NO_ACTION with sizeChange 0.
C4_WithinThresholdNoAction ==
    (/\ Decided
     /\ ~hedgePosition.isNull
     /\ ExposureToHedge > 0
     /\ Abs(ExposureToHedge - CurrentHedgeSize) * 100
            <= rebalanceThreshold * ExposureToHedge) =>
        decision = [action |-> "NO_ACTION", sizeChange |-> 0]

\* the deviation is exactly the threshold: |10 - 9| / 10 = 10 %
C4_Witness ==
    /\ Decided
    /\ hedgePosition = Position(-9)
    /\ lpPosition.token0Exposure = 10
    /\ rebalanceThreshold = 10
    /\ decision.action = "NO_ACTION"

\* C19: the sizeChange returned by determineHedgeAction is a finite number
\* >= 0, and it is strictly positive whenever the action is INCREASE_SHORT
\* or DECREASE_SHORT.
C19_SizeChangeNonNegative ==
    Decided =>
        /\ decision.sizeChange \in Nat
        /\ decision.action \in {"INCREASE_SHORT", "DECREASE_SHORT"} =>
               decision.sizeChange > 0

\* a short above the exposure is reduced by the positive difference
C19_Witness ==
    /\ decision.action = "DECREASE_SHORT"
    /\ hedgePosition.size < 0
    /\ ExposureToHedge > 0
    /\ decision.sizeChange = CurrentHedgeSize - ExposureToHedge
    /\ decision.sizeChange > 0

\* no exposure to the hedged token but value in the other token: the
\* deviation is Infinity and the whole hedge is taken off
C19_WitnessInfinity ==
    /\ decision.action = "DECREASE_SHORT"
    /\ ExposureToHedge = 0
    /\ decision.sizeChange = CurrentHedgeSize
    /\ decision.sizeChange > 0

C37_WitnessEqual ==
    /\ Decided
    /\ hedgePosition.size > 0
    /\ hedgePosition.size = ExposureToHedge
    /\ decision.action = "NO_ACTION"

----------------------------------------------------------------------------
(* SpecDeviation: calculateDeviation applied to every bounded input *)

\* amounts below the 1e-6 epsilon, at it and above it (units of 1e-7 USD)
DustAmounts == {0, 1, 9, 10, 11, 30, 32, 33, 70, 90, 100, 110}

\* whole USD amounts
UsdAmounts == {0, 1 * UsdUnits, 90 * UsdUnits, 100 * UsdUnits, 110 * UsdUnits}

\* (lpPendleExposure, hedgeSize) pairs tried: dust against dust of either
\* sign, whole USD against whole USD, and whole USD exposure against a hedge
\* below the epsilon
DeviationInputs ==
    { [lpPendleExposure |-> e, hedgeSize |-> h, passed |-> TRUE] :
          e \in DustAmounts \cup {-5}, h \in DustAmounts \cup {-x : x \in DustAmounts} }
    \cup { [lpPendleExposure |-> e, hedgeSize |-> h, passed |-> TRUE] :
          e \in UsdAmounts, h \in UsdAmounts \cup {-9, -1, 1, 9} }

InitDeviation ==
    /\ lpPosition = LPPositionOf(0, 0)
    /\ hedgePosition = NullPosition
    /\ rebalanceThreshold = 5
    /\ decision = NoDecision
    /\ HedgeIdle
    /\ ClientIdle
    /\ WireIdle
    /\ devArgs \in DeviationInputs
    /\ deviation = NoDeviation
    /\ BotIdle
    /\ ReadIdle

CalculateDeviation ==
    /\ ~deviation.returned
    /\ deviation' = [returned |-> TRUE,
                     value |-> calculateDeviation(devArgs.lpPendleExposure,
                                                  devArgs.hedgeSize)]
    /\ UNCHANGED devArgs
    /\ UNCHANGED <<decideVars, hedgeVars, clientVars, wireVars, botVars, readVars>>

NextDeviation == CalculateDeviation

SpecDeviation == InitDeviation /\ [][NextDeviation]_vars

----------------------------------------------------------------------------
(* Claims about calculateDeviation (checked under SpecDeviation) *)

\* C17: calculateDeviation(exposure, hedgeSize) returns 100 when hedgeSize
\* is 0 or smaller in magnitude than 1e-6 and exposure > 0, returns 0 in
\* that case when exposure is not positive, and otherwise returns
\* abs(exposure - hedgeSize) / hedgeSize * 100 rounded to 2 decimals:
\* (100,100) gives 0, (110,100) and (90,100) give 10, (100,0) and a hedge
\* below 1e-6 give 100, (0,0) gives 0.  Amounts are in units of 1e-7 USD
\* and the result in hundredths of a percent, so "rounded to 2 decimals"
\* reads: the magnitude of the result r is the integer nearest to
\* abs(exposure - hedgeSize) * 10000 / abs(hedgeSize), and r has the sign
\* of hedgeSize; 1e-6 USD is 10 units.
C17_DeviationValue ==
    deviation.returned =>
        LET e == devArgs.lpPendleExposure
            h == devArgs.hedgeSize
            r == deviation.value
            whole == e % UsdUnits = 0 /\ h % UsdUnits = 0
            unit == IF whole THEN UsdUnits ELSE 1
            mag == (IF h < 0 THEN -h ELSE h) \div unit
            dist == (IF e - h < 0 THEN h - e ELSE e - h) \div unit
            small == h > -10 /\ h < 10
        IN  /\ (small /\ e > 0) => r = 10000
            /\ (small /\ e <= 0) => r = 0
            /\ ~small =>
                   /\ (h > 0 => r >= 0) /\ (h < 0 => r <= 0)
                   /\ LET a == IF r < 0 THEN -r ELSE r
                      IN  /\ 2 * a * mag <= 2 * dist * 10000 + mag
                          /\ 2 * a * mag > 2 * dist * 10000 - mag
            /\ (e = 100 * UsdUnits /\ h = 100 * UsdUnits) => r = 0
            /\ (e = 110 * UsdUnits /\ h = 100 * UsdUnits) => r = 1000
            /\ (e = 90 * UsdUnits /\ h = 100 * UsdUnits) => r = 1000
            /\ (e = 100 * UsdUnits /\ h = 0) => r = 10000
            /\ (e = 100 * UsdUnits /\ h = 1) => r = 10000
            /\ (e = 0 /\ h = 0) => r = 0

\* a hedge of 9e-7 against an exposure of 100 USD reports 100 %
C17_Witness ==
    /\ deviation.returned
    /\ devArgs.lpPendleExposure = 100 * UsdUnits
    /\ devArgs.hedgeSize = 9
    /\ deviation.value = 10000

\* 1/32 is 3.125 %, a tie, reported as 3.13 %
C17_WitnessRounded ==
    /\ deviation.returned
    /\ devArgs.lpPendleExposure = 33
    /\ devArgs.hedgeSize = 32
    /\ deviation.value = 313

----------------------------------------------------------------------------
(* HyperliquidClient.makeRequest and placeOrder (src/unnamed/part_000) *)

MaxRetries == 6

DefaultRetries == 3

BackoffBaseMs == 1000

BackoffCapMs == 10000

\* What one fetch attempt (lines 102-115) can meet
FetchOutcomes ==
    { [kind |-> k, status |-> <<>>, body |-> <<>>, parsed |-> NoResponse] :
          k \in {"connectionFailed", "timedOut", "notJson", "jsonNull"} }
    \cup { [kind |-> "status", status |-> h.status, body |-> h.body,
            parsed |-> NoResponse] : h \in HttpErrors }
    \cup { [kind |-> "json", status |-> <<>>, body |-> <<>>, parsed |-> b] :
               b \in ResponseBodies }

\* The error the try block (lines 101-122) throws for an outcome
attemptError(o) ==
    CASE o.kind = "connectionFailed" ->
             [name |-> "TypeError", message |-> FetchFailedMessage]
      [] o.kind = "timedOut" ->
             [name |-> "TimeoutError", message |-> TimeoutMessage]
      [] o.kind = "status" ->
             [name |-> "Error", message |-> ApiErrorMessage(o.status, o.body)]
      [] o.kind = "notJson" ->
             [name |-> "SyntaxError", message |-> BadJsonMessage]
      [] o.kind = "jsonNull" ->
             [name |-> "Error", message |-> NullResponseMessage]
      [] OTHER -> NoError

\* lines 127-131
isNetworkError_all(error) == TRUE

isNetworkError(error) ==
    \/ error.name = "TypeError"
    \/ Includes(error.message, NetworkWord)
    \/ Includes(error.message, AbortWord)
    \/ Includes(error.message, TimeoutWord)

\* line 133: the condition under which the catch block retries
shouldRetry_leq(error, n, maxAttempts) ==
    isNetworkError(error) /\ n <= maxAttempts

shouldRetry(error, n, maxAttempts) ==
    isNetworkError(error) /\ n < maxAttempts

\* line 135
backoffMs_uncapped(n) == BackoffBaseMs * 2^(n - 1)

backoffMs(n) == Min(BackoffBaseMs * 2^(n - 1), BackoffCapMs)

\* placeOrder, lines 241-265: what it hands back for makeRequest's outcome
placeOrder_rethrow(err, resp) ==
    IF err # NoError
    THEN [escaped |-> TRUE, status |-> "none", error |-> err.message, id |-> "none"]
    ELSE IF resp.status = "success"
         THEN [escaped |-> FALSE, status |-> "success", error |-> <<>>, id |-> resp.id]
         ELSE [escaped |-> FALSE, status |-> "error",
               error |-> IF resp.error # <<>> THEN resp.error ELSE UnknownErrorText,
               id |-> "none"]

\* as placeOrder, but taking every body that does not say 'error' for a success
placeOrder_notError(err, resp) ==
    IF err # NoError
    THEN [escaped |-> FALSE, status |-> "error", error |-> err.message, id |-> "none"]
    ELSE IF resp.status # "error"
         THEN [escaped |-> FALSE, status |-> "success", error |-> <<>>, id |-> resp.id]
         ELSE [escaped |-> FALSE, status |-> "error",
               error |-> IF resp.error # <<>> THEN resp.error ELSE UnknownErrorText,
               id |-> "none"]

placeOrder(err, resp) ==
    IF err # NoError
    THEN [escaped |-> FALSE, status |-> "error", error |-> err.message, id |-> "none"]
    ELSE IF resp.status = "success"
         THEN [escaped |-> FALSE, status |-> "success", error |-> <<>>, id |-> resp.id]
         ELSE [escaped |-> FALSE, status |-> "error",
               error |-> IF resp.error # <<>> THEN resp.error ELSE UnknownErrorText,
               id |-> "none"]

MaxClock == 10

\* Date.now() at the time of the request
ClockValues == {9, MaxClock}

MaxOrderSize == 12

\* HyperliquidOrders handed to placeOrder
OrderSamples ==
    [side : {"BUY", "SELL"}, size : {1, MaxOrderSize}, orderType : {"MARKET"},
     reduceOnly : BOOLEAN]

ApiSecret == "signingKey"

Coin == "PENDLE"

\* Number.prototype.toString of a non-negative integer: its decimal digits
RECURSIVE toString(_)
toString(n) ==
    LET digit == <<"0", "1", "2", "3", "4", "5", "6", "7", "8", "9">>[(n % 10) + 1]
    IN  IF n < 10 THEN <<digit>> ELSE Append(toString(n \div 10), digit)

\* the number a sequence of decimal digits denotes
RECURSIVE parseDigits(_)
parseDigits(digits) ==
    IF digits = <<>> THEN 0
    ELSE LET last == digits[Len(digits)]
             d == CHOOSE k \in 0..9 : toString(k) = <<last>>
         IN  10 * parseDigits(SubSeq(digits, 1, Len(digits) - 1)) + d

\* parseFloat of the text of a whole number, with or without a minus sign
parseFloat(text) ==
    IF text # <<>> /\ text[1] = "-" THEN 0 - parseDigits(Tail(text))
                                    ELSE parseDigits(text)

toLowerCase(word) == IF word = "MARKET" THEN "market" ELSE "limit"

\* placeOrder, lines 228-237: the body of the /trade request
requestData(order) ==
    [type |-> toLowerCase(order.orderType), coin |-> Coin, side |-> order.side,
     size |-> toString(order.size), price |-> "null", reduceOnly |-> order.reduceOnly]

\* JSON.stringify of a request body, as the sequence of its tokens
stringify(body) ==
    <<"{", "action", ":", "{",
      "type", ":", "\"", body.type, "\"", ",",
      "coin", ":", "\"", body.coin, "\"", ",",
      "side", ":", "\"", body.side, "\"", ",",
      "size", ":", "\"">> \o body.size \o <<"\"", ",",
      "price", ":", body.price, ",",
      "reduceOnly", ":", IF body.reduceOnly THEN "true" ELSE "false",
      "}", "}">>

\* lines 59-61
generateNonce(now) == toString(now)

\* lines 50-54: HMAC-SHA256 of the message under the signing key, kept as
\* the triple that determines it
signRequest(message) ==
    [algorithm |-> "sha256", key |-> ApiSecret, message |-> message]

\* line 85
signatureData_payloadOnly(nonce, payload) == payload

signatureData(nonce, payload) == nonce \o payload

\* lines 75-77, 79-91: the headers of a request
requestHeaders(verb, body, now) ==
    IF verb = "POST" /\ body # NoData
    THEN [contentType |-> "application/json",
          signature |-> signRequest(signatureData(generateNonce(now), stringify(body))),
          nonce |-> generateNonce(now)]
    ELSE [contentType |-> "application/json", signature |-> NoSignature,
          nonce |-> NoHeader]

\* lines 102-107: the init argument of fetch
fetchInit(verb, hdrs, body) ==
    [method |-> verb, headers |-> hdrs,
     body |-> IF verb = "POST" THEN stringify(body) ELSE <<>>]

InitClient ==
    /\ lpPosition = LPPositionOf(0, 0)
    /\ hedgePosition = NullPosition
    /\ rebalanceThreshold = 5
    /\ decision = NoDecision
    /\ HedgeIdle
    /\ rpc = "start"
    /\ method \in {"GET", "POST"}
    /\ retries \in 1..MaxRetries
    /\ attempt = 0
    /\ waits = <<>>
    /\ history = <<>>
    /\ lastError = NoError
    /\ thrown = NoError
    /\ response = NoResponse
    /\ orderResponse = NoOrderResponse
    /\ clock \in ClockValues
    /\ data \in (IF method = "POST" THEN {requestData(o) : o \in OrderSamples}
                                      ELSE {NoData})
    /\ headers = [contentType |-> "", signature |-> NoSignature, nonce |-> NoHeader]
    /\ sent = <<>>
    /\ TelemetryIdle
    /\ BotIdle
    /\ ReadIdle

\* lines 79-95, POST: the signature is computed, or signing throws
makeRequest_sign ==
    /\ rpc = "start"
    /\ method = "POST"
    /\ \/ /\ rpc' = "fetch"
          /\ attempt' = 1
          /\ headers' = requestHeaders(method, data, clock)
          /\ UNCHANGED thrown
       \/ /\ rpc' = "threw"
          /\ thrown' = [name |-> "Error", message |-> SigningFailedMessage]
          /\ headers' = requestHeaders("GET", data, clock)
          /\ UNCHANGED attempt
    /\ UNCHANGED <<clock, data, sent>>
    /\ UNCHANGED <<method, retries, waits, history, lastError, response, orderResponse>>
    /\ UNCHANGED outsideClient

\* lines 79, 100, GET: no signature
makeRequest_nosign ==
    /\ rpc = "start"
    /\ method = "GET"
    /\ rpc' = "fetch"
    /\ attempt' = 1
    /\ headers' = requestHeaders(method, data, clock)
    /\ UNCHANGED <<clock, data, sent>>
    /\ UNCHANGED <<method, retries, waits, history, lastError, thrown, response,
                   orderResponse>>
    /\ UNCHANGED outsideClient

\* lines 100-144: one pass of the loop body up to the return, the throw or
\* the start of the backoff sleep
makeRequest_attempt ==
    /\ rpc = "fetch"
    /\ attempt <= retries
    /\ sent' = Append(sent, fetchInit(method, headers, data))
    /\ UNCHANGED <<clock, data, headers>>
    /\ \E o \in FetchOutcomes :
        /\ history' = Append(history, o)
        /\ IF o.kind = "json"
           THEN /\ response' = o.parsed
                /\ rpc' = "returned"
                /\ UNCHANGED <<lastError, thrown>>
           ELSE /\ lastError' = attemptError(o)
                /\ IF shouldRetry(attemptError(o), attempt, retries)
                   THEN /\ rpc' = "backoff"
                        /\ UNCHANGED thrown
                   ELSE /\ rpc' = "threw"
                        /\ thrown' = attemptError(o)
                /\ UNCHANGED response
    /\ UNCHANGED <<method, retries, attempt, waits, orderResponse>>
    /\ UNCHANGED outsideClient

\* lines 137-138: the sleep elapses, `continue` starts the next attempt
makeRequest_backoff ==
    /\ rpc = "backoff"
    /\ waits' = Append(waits, backoffMs(attempt))
    /\ attempt' = attempt + 1
    /\ rpc' = "fetch"
    /\ UNCHANGED <<method, retries, history, lastError, thrown, response, orderResponse>>
    /\ UNCHANGED <<outsideClient, wireVars>>

\* placeOrder, lines 239-265, after makeRequest('/trade', 'POST') settled
placeOrder_return ==
    /\ rpc \in {"returned", "threw"}
    /\ method = "POST"
    /\ orderResponse' = placeOrder(thrown, response)
    /\ rpc' = "done"
    /\ UNCHANGED <<method, retries, attempt, waits, history, lastError, thrown, response>>
    /\ UNCHANGED <<outsideClient, wireVars>>

\* getMarketData / getPositions, lines 156, 170-173, 181, 204-207: the
\* result is used or the error is logged and rethrown
read_return ==
    /\ rpc \in {"returned", "threw"}
    /\ method = "GET"
    /\ rpc' = "done"
    /\ UNCHANGED <<method, retries, attempt, waits, history, lastError, thrown, response,
                   orderResponse>>
    /\ UNCHANGED <<outsideClient, wireVars>>

NextClient ==
    \/ makeRequest_sign
    \/ makeRequest_nosign
    \/ makeRequest_attempt
    \/ makeRequest_backoff
    \/ placeOrder_return
    \/ read_return

SpecClient == InitClient /\ [][NextClient]_vars

----------------------------------------------------------------------------
(* Claims about the exchange client (checked under SpecClient) *)

\* C8: placeOrder never throws or rejects: transport failures, signing
\* failures, HTTP errors and venue-reported errors all come back as an
\* OrderResponse with status 'error'; only a venue status 'success' comes
\* back as 'success'.
C8_PlaceOrderNeverThrows ==
    (rpc = "done" /\ method = "POST") =>
        /\ ~orderResponse.escaped
        /\ orderResponse.status \in {"success", "error"}
        /\ (thrown # NoError \/ response.status # "success")
               => orderResponse.status = "error"

\* placeOrder has settled after signing failed
C8_Witness ==
    /\ rpc = "done"
    /\ method = "POST"
    /\ thrown.message = SigningFailedMessage
    /\ orderResponse.status = "error"
    /\ orderResponse.error = SigningFailedMessage

\* connection and timeout failures: the transient errors of the claim
TransientOutcome(o) == o.kind \in {"connectionFailed", "timedOut"}

\* C9: when attempt k fails with a transient error and k < maxAttempts the
\* client waits min(1000 * 2^(k-1), 10000) ms and then makes attempt k+1;
\* a request whose first two attempts fail transiently and whose third
\* succeeds returns the successful result after waits of 1000 and 2000 ms.
C9_RetryBackoff ==
    /\ \A k \in 1..Len(waits) :
           waits[k] = (IF 1000 * 2^(k - 1) < 10000 THEN 1000 * 2^(k - 1) ELSE 10000)
    /\ \A k \in 1..Len(history) :
           (TransientOutcome(history[k]) /\ k < retries) =>
               \/ rpc = "backoff" /\ attempt = k /\ Len(waits) = k - 1
               \/ attempt > k /\ Len(waits) >= k
    /\ (/\ Len(history) = 3
        /\ TransientOutcome(history[1])
        /\ TransientOutcome(history[2])
        /\ history[3].kind = "json") =>
           /\ rpc \in {"returned", "done"}
           /\ response = history[3].parsed
           /\ thrown = NoError
           /\ waits = <<1000, 2000>>

\* two transient failures, then success on the third of three attempts
C9_Witness ==
    /\ rpc = "done"
    /\ retries = DefaultRetries
    /\ Len(history) = 3
    /\ history[1].kind = "connectionFailed"
    /\ history[2].kind = "timedOut"
    /\ response.status = "success"
    /\ waits = <<1000, 2000>>

\* the cap applies: the wait after a fifth failed attempt is 10000 ms
C9_WitnessCap == Len(waits) = 5 /\ waits[5] = 10000

\* C10: a fatal failure, in particular any HTTP non-2xx response whatever
\* its body text, aborts the request at once: the failed attempt is the
\* last one (the only one when it is the first), no backoff wait follows
\* it, and its error is thrown.
C10_FatalAbortsImmediately ==
    \A k \in 1..Len(history) :
        history[k].kind \in {"status", "notJson", "jsonNull"} =>
            /\ k = Len(history)
            /\ Len(waits) = k - 1
            /\ (k = 1 => waits = <<>>)
            /\ rpc \in {"threw", "done"}
            /\ thrown = attemptError(history[k])

\* C11: makeRequest ends after at most maxAttempts attempts: it never makes
\* attempt maxAttempts+1, it does not wait after the final attempt, and when
\* every attempt failed transiently it throws the error of the last attempt.
C11_AtMostMaxAttempts ==
    /\ attempt <= retries
    /\ Len(history) <= retries
    /\ Len(waits) <= retries - 1
    /\ Len(waits) <= Len(history)
    /\ Len(history) = retries =>
           /\ rpc \in {"returned", "threw", "done"}
           /\ Len(waits) = retries - 1
    /\ (/\ Len(history) = retries
        /\ \A k \in 1..retries : TransientOutcome(history[k])) =>
           /\ rpc \in {"threw", "done"}
           /\ thrown = attemptError(history[retries])
           /\ response = NoResponse

\* three attempts of three failed transiently; the third error was thrown
C11_Witness ==
    /\ retries = DefaultRetries
    /\ Len(history) = 3
    /\ \A k \in 1..3 : TransientOutcome(history[k])
    /\ history[2].kind = "connectionFailed"
    /\ history[3].kind = "timedOut"
    /\ rpc = "threw"
    /\ thrown.message = TimeoutMessage
    /\ waits = <<1000, 2000>>

\* C12: a 2xx response whose parsed body is null or undefined is fatal: its
\* error is thrown to the caller and no further attempt is made, whatever
\* attempts remain.
C12_NullBodyFatal ==
    \A k \in 1..Len(history) :
        history[k].kind = "jsonNull" =>
            /\ k = Len(history)
            /\ Len(waits) = k - 1
            /\ rpc \in {"threw", "done"}
            /\ thrown.message = NullResponseMessage
            /\ response = NoResponse

\* a null body on the first of several attempts was thrown at once
C12_Witness ==
    /\ retries >= 2
    /\ Len(history) = 1
    /\ history[1].kind = "jsonNull"
    /\ rpc = "threw"
    /\ thrown.message = NullResponseMessage
    /\ waits = <<>>

\* C20: every POST request sent carries a nonce header and a signature
\* header, the signature being the HMAC of nonce || JSON(body) of exactly
\* the body that is sent; a GET request carries neither header.
C20_PostSignedGetBare ==
    \A i \in 1..Len(sent) :
        /\ sent[i].method = method
        /\ sent[i].method = "POST" =>
               /\ sent[i].headers.nonce # NoHeader
               /\ sent[i].headers.nonce = toString(clock)
               /\ sent[i].headers.signature # NoSignature
               /\ sent[i].headers.signature =
                      [algorithm |-> "sha256", key |-> ApiSecret,
                       message |-> sent[i].headers.nonce \o sent[i].body]
               /\ sent[i].body = stringify(data)
               /\ sent[i].body # <<>>
        /\ sent[i].method = "GET" =>
               /\ sent[i].headers.nonce = NoHeader
               /\ sent[i].headers.signature = NoSignature
               /\ sent[i].body = <<>>

\* a signed order request was sent twice (one retry), both times with the
\* headers computed before the loop
C20_Witness ==
    /\ method = "POST"
    /\ Len(sent) = 2
    /\ sent[1] = sent[2]
    /\ clock >= 10
    /\ Len(sent[2].headers.nonce) = 2
    /\ sent[2].headers.nonce[1] = "1"
    /\ sent[2].headers.signature.message = sent[2].headers.nonce \o sent[2].body
    /\ Len(data.size) = 2

\* a read was sent without nonce and signature
C20_WitnessGet ==
    /\ method = "GET"
    /\ Len(sent) = 1
    /\ sent[1].headers =
           [contentType |-> "application/json", signature |-> NoSignature,
            nonce |-> NoHeader]

\* C23: placeOrder returns status 'success', with the venue's order id, if
\* and only if the venue response has status 'success'; any other venue
\* response yields status 'error' carrying the venue's error text, or
\* 'Unknown error' when the response has none.
C23_SuccessIffVenueSuccess ==
    (rpc = "done" /\ method = "POST") =>
        /\ orderResponse.status = "success"
               <=> (thrown = NoError /\ response.status = "success")
        /\ orderResponse.status = "success" => orderResponse.id = response.id
        /\ (thrown = NoError /\ response.status # "success") =>
               /\ orderResponse.status = "error"
               /\ orderResponse.id = "none"
               /\ orderResponse.error =
                      (IF response.error # <<>> THEN response.error
                                                ELSE UnknownErrorText)

\* placeOrder returned the venue's id for an accepted order
C23_Witness ==
    /\ rpc = "done"
    /\ method = "POST"
    /\ response.status = "success"
    /\ response.id # "none"
    /\ orderResponse.status = "success"
    /\ orderResponse.id = response.id

\* placeOrder returned 'Unknown error' for a body with neither status nor
\* error text
C23_WitnessUnknown ==
    /\ rpc = "done"
    /\ method = "POST"
    /\ thrown = NoError
    /\ response.status = "none"
    /\ orderResponse.status = "error"
    /\ orderResponse.error = UnknownErrorText

----------------------------------------------------------------------------
(* SpecOverlap: an order request in flight while a later check of the same *)
(* process submits its own order request                                   *)

\* Date.now() read after an earlier reading `now`: the clock does not go back
LaterClockValues(now) == {c \in ClockValues : c >= now}

\* makeRequest lines 75-108 run by a second placeOrder call while the first
\* call is in its backoff sleep, line 137 (the interval callback,
\* types.ts lines 185-190, starts a check without awaiting the one before):
\* the nonce is generated and the first fetch is issued before the first
\* await, so the two happen in one step.  One overlapping call is modelled:
\* the guard on Len(sent) holds while only the first call has sent requests
makeRequest_overlapping ==
    /\ rpc = "backoff"
    /\ method = "POST"
    /\ Len(sent) = attempt
    /\ \E now \in LaterClockValues(clock), o \in OrderSamples :
        /\ clock' = now
        /\ sent' = Append(sent, fetchInit("POST",
                                          requestHeaders("POST", requestData(o), now),
                                          requestData(o)))
    /\ UNCHANGED <<data, headers>>
    /\ UNCHANGED clientVars
    /\ UNCHANGED outsideClient

InitOverlap ==
    /\ InitClient
    /\ method = "POST"
    /\ retries \in 2..DefaultRetries

NextOverlap ==
    \/ makeRequest_sign
    \/ makeRequest_attempt
    \/ makeRequest_backoff
    \/ placeOrder_return
    \/ makeRequest_overlapping

SpecOverlap == InitOverlap /\ [][NextOverlap]_vars

----------------------------------------------------------------------------
(* Claims about the nonces on the wire (checked under SpecOverlap) *)

\* C21: the nonces of successive mutating requests of one process are
\* monotonically non-decreasing: a later request never carries a nonce
\* smaller than the nonce an earlier request carried.
C21_NoncesNonDecreasing ==
    \A i, j \in 1..Len(sent) :
        (i < j /\ sent[i].method = "POST" /\ sent[j].method = "POST") =>
            parseDigits(sent[i].headers.nonce) <= parseDigits(sent[j].headers.nonce)

----------------------------------------------------------------------------
(* SpecPositions: HyperliquidClient.getPositions and getPosition           *)
(* (src/unnamed/part_000 lines 179-221) on the parsed body of              *)
(* GET /user/positions                                                     *)

MaxRows == 2

MaxRowSize == 12

\* the size field of a row as the venue writes it: absent, or the text of a
\* whole number of USD
RowSizes ==
    {<<>>} \cup {toString(n) : n \in {0, 4, MaxRowSize}}
           \cup {<<"-">> \o toString(n) : n \in {4, MaxRowSize}}

\* rows of response.positions: coin, size and the venue's own side field
UpstreamRows == [coin : {Coin, "ETH"}, size : RowSizes, side : {"LONG", "SHORT"}]

\* bodies of GET /user/positions: without a positions array, or with an
\* array of up to MaxRows rows
PositionsBodies ==
    {NoBody} \cup
    { [hasPositions |-> TRUE, rows |-> r] :
          r \in UNION {[1..n -> UpstreamRows] : n \in 0..MaxRows} }

\* line 190: pos.size || '0'
sizeOrDefault(text) == IF text = <<>> THEN <<"0">> ELSE text

\* lines 189-203: one row converted to a HyperliquidPosition
toPosition(row) ==
    [coin |-> row.coin, position |-> Position(parseFloat(sizeOrDefault(row.size)))]

\* lines 184-203
getPositions(body) ==
    IF ~body.hasPositions \/ body.rows = <<>>
    THEN <<>>
    ELSE [i \in 1..Len(body.rows) |-> toPosition(body.rows[i])]

\* lines 215-216: positions.find(pos => pos.coin === coin) || null
getPosition(list, coin) ==
    IF \E i \in 1..Len(list) : list[i].coin = coin
    THEN list[CHOOSE i \in 1..Len(list) :
                  /\ list[i].coin = coin
                  /\ \A j \in 1..(i - 1) : list[j].coin # coin]
    ELSE NoRow

InitPositions ==
    /\ lpPosition = LPPositionOf(0, 0)
    /\ hedgePosition = NullPosition
    /\ rebalanceThreshold = 5
    /\ decision = NoDecision
    /\ HedgeIdle
    /\ ClientIdle
    /\ WireIdle
    /\ TelemetryIdle
    /\ BotIdle
    /\ readPc = "start"
    /\ positionsBody \in PositionsBodies
    /\ positions = <<>>
    /\ found = NoRow

\* getPositions, lines 181-203, on the body makeRequest returned
getPositions_return ==
    /\ readPc = "start"
    /\ positions' = getPositions(positionsBody)
    /\ readPc' = "listed"
    /\ UNCHANGED <<positionsBody, found>>
    /\ UNCHANGED <<decideVars, hedgeVars, clientVars, wireVars, telemetryVars, botVars>>

\* getPosition, lines 215-216
getPosition_return ==
    /\ readPc = "listed"
    /\ found' = getPosition(positions, Coin)
    /\ readPc' = "done"
    /\ UNCHANGED <<positionsBody, positions>>
    /\ UNCHANGED <<decideVars, hedgeVars, clientVars, wireVars, telemetryVars, botVars>>

NextPositions ==
    \/ getPositions_return
    \/ getPosition_return

SpecPositions == InitPositions /\ [][NextPositions]_vars

----------------------------------------------------------------------------
(* Claims about getPositions (checked under SpecPositions) *)

\* C22: every position returned by getPositions has its side derived from
\* the sign of its size and never from the upstream side field: side is
\* LONG exactly when size > 0 and SHORT exactly when size < 0.
C22_SideFromSign ==
    readPc # "start" =>
        /\ Len(positions) = (IF positionsBody.hasPositions
                             THEN Len(positionsBody.rows) ELSE 0)
        /\ \A i \in 1..Len(positions) :
            /\ positions[i].position.size =
                   parseFloat(sizeOrDefault(positionsBody.rows[i].size))
            /\ positions[i].position.side = "LONG" <=> positions[i].position.size > 0
            /\ positions[i].position.side = "SHORT" <=> positions[i].position.size < 0

----------------------------------------------------------------------------
(* HedgeController.updateHedgePosition (src/src/modules/hedgeController.ts) *)

MaxTickExposure == 4
MaxTickToken1 == 1
MaxTickHedge == 4

\* config.fundingTolerance: TRASHOLD_FUNDING default 0.5, / 100 = 0.005
FundingTolerance == 5

\* funding rates of the venue tried (units of 0.001)
FundingRates == {-6, -5, 0, 5, 6}

VenuePrice == 1

TickLPPositions ==
    {LPPositionOf(t0, t1) : t0 \in 0..MaxTickExposure, t1 \in 0..MaxTickToken1}

VenuePositions ==
    {NullPosition} \cup {Position(sz) : sz \in (-MaxTickHedge)..MaxTickHedge}

\* details / error texts of the ExecutionResults (the amounts that the
\* code formats into the details are left out of the text)
NoRebalanceText == <<"N", "o", " ", "r", "e", "b", "a", "l", "a", "n", "c", "e", " ", "n", "e", "e", "d", "e", "d", ".">>
FundingExceedsText == <<"F", "u", "n", "d", "i", "n", "g", " ", "r", "a", "t", "e", " ", "e", "x", "c", "e", "e", "d", "s", " ", "t", "o", "l", "e", "r", "a", "n", "c", "e", ".", " ", "S", "k", "i", "p", "p", "i", "n", "g", " ", "h", "e", "d", "g", "e", " ", "i", "n", "c", "r", "e", "a", "s", "e", ".">>
IncreasedText == <<"I", "n", "c", "r", "e", "a", "s", "e", "d", " ", "s", "h", "o", "r", "t", " ", "p", "o", "s", "i", "t", "i", "o", "n">>
DecreasedText == <<"D", "e", "c", "r", "e", "a", "s", "e", "d", " ", "s", "h", "o", "r", "t", " ", "p", "o", "s", "i", "t", "i", "o", "n">>
ClosedText == <<"C", "l", "o", "s", "e", "d", " ", "a", "l", "l", " ", "p", "o", "s", "i", "t", "i", "o", "n", "s">>
UnknownIncreaseText == <<"U", "n", "k", "n", "o", "w", "n", " ", "e", "r", "r", "o", "r", " ", "i", "n", "c", "r", "e", "a", "s", "i", "n", "g", " ", "s", "h", "o", "r", "t", " ", "p", "o", "s", "i", "t", "i", "o", "n">>
UnknownDecreaseText == <<"U", "n", "k", "n", "o", "w", "n", " ", "e", "r", "r", "o", "r", " ", "d", "e", "c", "r", "e", "a", "s", "i", "n", "g", " ", "s", "h", "o", "r", "t", " ", "p", "o", "s", "i", "t", "i", "o", "n">>
UnknownCloseText == <<"U", "n", "k", "n", "o", "w", "n", " ", "e", "r", "r", "o", "r", " ", "c", "l", "o", "s", "i", "n", "g", " ", "p", "o", "s", "i", "t", "i", "o", "n", "s">>

\* How makeRequest can end: an error thrown or a parsed body returned
RequestOutcomes ==
    { [thrown |-> attemptError(o), response |-> NoResponse] :
          o \in {x \in FetchOutcomes : x.kind # "json"} }
    \cup { [thrown |-> [name |-> "Error", message |-> SigningFailedMessage],
            response |-> NoResponse] }
    \cup { [thrown |-> NoError, response |-> b] : b \in ResponseBodies }

\* Errors a GET (getPositions, getMarketData) can end with
ReadErrors ==
    { attemptError(o) : o \in {x \in FetchOutcomes : x.kind # "json"} }

ExecutionResult(ok, act, det, err) ==
    [success |-> ok, action |-> act, details |-> det, error |-> err]

\* lines 141-155, 165-179, 188-202: the order response mapped to a result
orderResult(act, r, doneText, unknownText) ==
    IF r.status = "success"
    THEN ExecutionResult(TRUE, act, doneText, <<>>)
    ELSE ExecutionResult(FALSE, act, <<>>,
                         IF r.error # <<>> THEN r.error ELSE unknownText)

\* the result each case of the switch builds from its order response
caseResult(act, r) ==
    CASE act = "INCREASE_SHORT" ->
             orderResult(act, r, IncreasedText, UnknownIncreaseText)
      [] act = "DECREASE_SHORT" ->
             orderResult(act, r, DecreasedText, UnknownDecreaseText)
      [] OTHER ->
             orderResult(act, r, ClosedText, UnknownCloseText)

\* lines 113-119: the case of the switch that returns without any call
returnsImmediately_never(act) == FALSE

returnsImmediately(act) == act = "NO_ACTION"

\* the actions before which checkFundingRate is awaited (lines 121-123)
fundingGated_all(act) == act # "NO_ACTION"

fundingGated(act) == act = "INCREASE_SHORT"

\* HyperliquidOrder of openShortPosition / reduceShortPosition /
\* closePosition (part_000 lines 275-282, 292-299, 316-326)
openShortOrder(sizeUsd) ==
    [side |-> "SELL", size |-> sizeUsd, orderType |-> "MARKET", reduceOnly |-> FALSE]

reduceShortOrder(sizeUsd) ==
    [side |-> "BUY", size |-> sizeUsd, orderType |-> "MARKET", reduceOnly |-> TRUE]

\* as closeOrder, but buying whatever the side of the position
closeOrder_alwaysBuy(position) ==
    [side |-> "BUY", size |-> Abs(position.size), orderType |-> "MARKET",
     reduceOnly |-> TRUE]

closeOrder(position) ==
    [side |-> IF position.side = "LONG" THEN "SELL" ELSE "BUY",
     size |-> Abs(position.size), orderType |-> "MARKET", reduceOnly |-> TRUE]

\* hedgeController.ts lines 99-101: the arguments of the telemetry call
\* (whole USD amounts, handed over in calculateDeviation's units)
telemetryArgs(lp, hedge) ==
    [lpPendleExposure |-> lp.token0Exposure * UsdUnits,
     hedgeSize |-> (IF ~hedge.isNull THEN Abs(hedge.size) ELSE 0) * UsdUnits,
     passed |-> TRUE]

\* part_000 line 309: closePosition has nothing to close
nothingToClose_nullOnly(position) == position.isNull

nothingToClose(position) == position.isNull \/ position.size = 0

InitHedge ==
    /\ lpPosition \in TickLPPositions
    /\ hedgePosition = NullPosition
    /\ rebalanceThreshold \in ThresholdPcts
    /\ decision = NoDecision
    /\ pc = "start"
    /\ venuePosition \in VenuePositions
    /\ venueFunding \in FundingRates
    /\ marketData = [price |-> 0, fundingRate |-> 0]
    /\ fundingSeen = 0
    /\ failures = {}
    /\ calls = <<>>
    /\ orders = <<>>
    /\ results = <<>>
    /\ ClientIdle
    /\ WireIdle
    /\ TelemetryIdle
    /\ BotIdle
    /\ ReadIdle

\* lines 83-119 and the head of each case: both reads settle (a failed read
\* is swallowed by getHedgePosition / getMarketData, lines 24-48), the
\* decision is computed, and the switch returns (NO_ACTION) or starts the
\* first awaited call of its case.
updateHedgePosition_decide ==
    /\ pc = "start"
    /\ \E posOk \in BOOLEAN, mdOk \in BOOLEAN :
        LET hedge == IF posOk THEN venuePosition ELSE NullPosition
            md == IF mdOk THEN [price |-> VenuePrice, fundingRate |-> venueFunding]
                  ELSE [price |-> 0, fundingRate |-> 0]
            d == determineHedgeAction(lpPosition, hedge, rebalanceThreshold)
        IN  /\ hedgePosition' = hedge
            /\ marketData' = md
            /\ decision' = d
            /\ devArgs' = telemetryArgs(lpPosition, hedge)
            /\ deviation' = [returned |-> TRUE,
                             value |-> calculateDeviation(
                                           telemetryArgs(lpPosition, hedge).lpPendleExposure,
                                           telemetryArgs(lpPosition, hedge).hedgeSize)]
            /\ failures' = failures \cup (IF posOk THEN {} ELSE {"positionRead"})
                                    \cup (IF mdOk THEN {} ELSE {"marketDataRead"})
            /\ IF returnsImmediately(d.action)
               THEN /\ results' = Append(results,
                          ExecutionResult(TRUE, d.action, NoRebalanceText, <<>>))
                    /\ pc' = "done"
                    /\ calls' = <<"getHedgePosition", "getMarketData">>
                    /\ UNCHANGED orders
               ELSE IF fundingGated(d.action)
               THEN /\ pc' = "checkFunding"
                    /\ calls' = <<"getHedgePosition", "getMarketData", "checkFundingRate">>
                    /\ UNCHANGED <<orders, results>>
               ELSE IF d.action = "INCREASE_SHORT"
               THEN /\ pc' = "order"
                    /\ calls' = <<"getHedgePosition", "getMarketData", "openShortPosition">>
                    /\ orders' = Append(orders, openShortOrder(d.sizeChange))
                    /\ UNCHANGED results
               ELSE IF d.action = "DECREASE_SHORT"
               THEN /\ pc' = "order"
                    /\ calls' = <<"getHedgePosition", "getMarketData", "reduceShortPosition">>
                    /\ orders' = Append(orders, reduceShortOrder(d.sizeChange))
                    /\ UNCHANGED results
               ELSE /\ pc' = "closeRead"
                    /\ calls' = <<"getHedgePosition", "getMarketData", "closePosition">>
                    /\ UNCHANGED <<orders, results>>
    /\ UNCHANGED <<lpPosition, rebalanceThreshold, venuePosition, venueFunding, fundingSeen>>
    /\ UNCHANGED outsideHedge

\* checkFundingRate (lines 54-73) settles; lines 125-139.  Its market-data
\* read goes through HedgeController.getMarketData, which answers a failed
\* read with fundingRate 0.
updateHedgePosition_funding ==
    /\ pc = "checkFunding"
    /\ \E mdOk \in BOOLEAN :
        LET rate == IF mdOk THEN venueFunding ELSE 0
        IN  /\ fundingSeen' = rate
            /\ failures' = failures \cup (IF mdOk THEN {} ELSE {"fundingRead"})
            /\ IF ~isFundingRateAcceptable(rate, FundingTolerance)
               THEN /\ results' = Append(results,
                          ExecutionResult(FALSE, decision.action, FundingExceedsText, <<>>))
                    /\ pc' = "done"
                    /\ UNCHANGED <<calls, orders>>
               ELSE IF decision.action = "INCREASE_SHORT"
               THEN /\ pc' = "order"
                    /\ calls' = Append(calls, "openShortPosition")
                    /\ orders' = Append(orders, openShortOrder(decision.sizeChange))
                    /\ UNCHANGED results
               ELSE IF decision.action = "DECREASE_SHORT"
               THEN /\ pc' = "order"
                    /\ calls' = Append(calls, "reduceShortPosition")
                    /\ orders' = Append(orders, reduceShortOrder(decision.sizeChange))
                    /\ UNCHANGED results
               ELSE /\ pc' = "closeRead"
                    /\ calls' = Append(calls, "closePosition")
                    /\ UNCHANGED <<orders, results>>
    /\ UNCHANGED <<decideVars, venuePosition, venueFunding, marketData>>
    /\ UNCHANGED <<outsideHedge, telemetryVars>>

\* closePosition (part_000 lines 305-327) up to its placeOrder: getPosition
\* settles.  Its error is not caught in closePosition and reaches the catch
\* of updateHedgePosition (lines 204-212).
updateHedgePosition_closeRead ==
    /\ pc = "closeRead"
    /\ \/ \E e \in ReadErrors :
            /\ failures' = failures \cup {"closeRead"}
            /\ results' = Append(results,
                   ExecutionResult(FALSE, "NO_ACTION", <<>>, e.message))
            /\ pc' = "done"
            /\ UNCHANGED orders
       \/ /\ nothingToClose(venuePosition)
          /\ results' = Append(results,
                 ExecutionResult(TRUE, decision.action, ClosedText, <<>>))
          /\ pc' = "done"
          /\ UNCHANGED <<orders, failures>>
       \/ /\ ~nothingToClose(venuePosition)
          /\ orders' = Append(orders, closeOrder(venuePosition))
          /\ pc' = "order"
          /\ UNCHANGED <<results, failures>>
    /\ UNCHANGED <<decideVars, venuePosition, venueFunding, marketData, fundingSeen, calls>>
    /\ UNCHANGED <<outsideHedge, telemetryVars>>

\* placeOrder settles and its response is mapped to the ExecutionResult
updateHedgePosition_order ==
    /\ pc = "order"
    /\ \E o \in RequestOutcomes :
        LET r == placeOrder(o.thrown, o.response)
        IN  /\ failures' = failures \cup (IF r.status = "success" THEN {} ELSE {"order"})
            /\ results' = Append(results, caseResult(decision.action, r))
    /\ pc' = "done"
    /\ UNCHANGED <<decideVars, venuePosition, venueFunding, marketData, fundingSeen,
                   calls, orders>>
    /\ UNCHANGED <<outsideHedge, telemetryVars>>

NextHedge ==
    \/ updateHedgePosition_decide
    \/ updateHedgePosition_funding
    \/ updateHedgePosition_closeRead
    \/ updateHedgePosition_order

SpecHedge == InitHedge /\ [][NextHedge]_vars

----------------------------------------------------------------------------
(* Claims about updateHedgePosition (checked under SpecHedge) *)

\* C5: whenever the decision is INCREASE_SHORT and abs(fundingRate) >
\* fundingTolerance (fundingRate: the rate checkFundingRate obtained, the
\* venue's rate when its read succeeded) the result is a failed
\* ExecutionResult and no order is sent; the opening order is sent only
\* after the check abs(fundingRate) <= fundingTolerance passed, equality
\* passes and the sign of the rate does not matter.
C5_FundingGate ==
    /\ (decision.action = "INCREASE_SHORT" /\ pc \in {"order", "done"}) =>
           /\ "fundingRead" \notin failures => fundingSeen = venueFunding
           /\ IF Abs(fundingSeen) > FundingTolerance
              THEN /\ pc = "done"
                   /\ orders = <<>>
                   /\ Len(results) = 1
                   /\ ~results[1].success
                   /\ results[1].action = "INCREASE_SHORT"
              ELSE orders = <<openShortOrder(decision.sizeChange)>>
    /\ \A i \in 1..Len(orders) :
           ~orders[i].reduceOnly =>
               /\ calls[Len(calls) - 1] = "checkFundingRate"
               /\ Abs(fundingSeen) <= FundingTolerance

\* a negative rate beyond the tolerance was read and blocked the increase
C5_Witness ==
    /\ pc = "done"
    /\ decision.action = "INCREASE_SHORT"
    /\ failures = {}
    /\ venueFunding = -6
    /\ orders = <<>>
    /\ ~results[1].success

\* C6: a DECREASE_SHORT or CLOSE_POSITIONS decision is executed
\* (reduceShortPosition / closePosition is called) whatever the funding
\* rate is: no funding check stands before it.
C6_ShrinkNotGated ==
    (decision.action \in {"DECREASE_SHORT", "CLOSE_POSITIONS"} /\ pc # "start") =>
        /\ pc \in {"order", "closeRead", "done"}
        /\ calls = <<"getHedgePosition", "getMarketData",
                     IF decision.action = "DECREASE_SHORT"
                     THEN "reduceShortPosition" ELSE "closePosition">>
        /\ decision.action = "DECREASE_SHORT" =>
               orders = <<reduceShortOrder(decision.sizeChange)>>

\* the hedge was reduced while the funding rate was beyond the tolerance
C6_Witness ==
    /\ pc = "done"
    /\ decision.action = "DECREASE_SHORT"
    /\ failures = {}
    /\ venueFunding = 6
    /\ results[1].success
    /\ Len(orders) = 1

\* a close was executed while the funding rate was beyond the tolerance
C6_WitnessClose ==
    /\ pc = "done"
    /\ decision.action = "CLOSE_POSITIONS"
    /\ venueFunding = 6
    /\ results[1].success
    /\ Len(orders) = 1

\* C7: updateHedgePosition never lets an exception escape: it returns
\* exactly one ExecutionResult, and any failure of the position read, the
\* market-data read, the funding check or the order call yields
\* success = false with an error or details text.
C7_OneResultFailuresReported ==
    pc = "done" =>
        /\ Len(results) = 1
        /\ failures # {} =>
               /\ ~results[1].success
               /\ results[1].error # <<>> \/ results[1].details # <<>>

\* C16: closePosition first reads the current position and, when there is
\* no position for the asset or its size is exactly 0, returns a success
\* result without placing any order; an order is placed only for a
\* position read with a size other than 0.
C16_CloseNothingIsSuccess ==
    /\ (/\ pc = "done"
        /\ decision.action = "CLOSE_POSITIONS"
        /\ "closeRead" \notin failures
        /\ venuePosition.isNull \/ venuePosition.size = 0) =>
           /\ orders = <<>>
           /\ "order" \notin failures
           /\ Len(results) = 1
           /\ results[1].success
           /\ results[1].action = "CLOSE_POSITIONS"
    /\ (decision.action = "CLOSE_POSITIONS" /\ orders # <<>>) =>
           /\ ~venuePosition.isNull
           /\ venuePosition.size # 0
           /\ Len(orders) = 1
           /\ orders[1].size = Abs(venuePosition.size)
           /\ orders[1].size > 0

\* the venue holds a position row of size 0: nothing was ordered
C16_Witness ==
    /\ pc = "done"
    /\ decision.action = "CLOSE_POSITIONS"
    /\ ~venuePosition.isNull
    /\ venuePosition.size = 0
    /\ "closeRead" \notin failures
    /\ orders = <<>>
    /\ results[1].success

\* there is no position row at all: nothing was ordered
C16_WitnessNone ==
    /\ pc = "done"
    /\ decision.action = "CLOSE_POSITIONS"
    /\ venuePosition.isNull
    /\ "closeRead" \notin failures
    /\ orders = <<>>
    /\ results[1].success

\* C18: in any tick with exposure > 0 and an existing hedge, the deviation
\* reported by calculateDeviation(exposure, abs(hedge size)) exceeds
\* rebalanceThreshold * 100 if and only if determineHedgeAction returns
\* INCREASE_SHORT or DECREASE_SHORT (a hedge of magnitude below 1e-6
\* included).  The deviation is in hundredths of a percent and the
\* threshold a whole percentage, hence the factor 100.
C18_TelemetryAgreesWithAction ==
    (/\ pc # "start"
     /\ lpPosition.token0Exposure > 0
     /\ ~hedgePosition.isNull) =>
        /\ deviation.returned
        /\ devArgs.lpPendleExposure = lpPosition.token0Exposure * UsdUnits
        /\ devArgs.hedgeSize = Abs(hedgePosition.size) * UsdUnits
        /\ (deviation.value > rebalanceThreshold * 100)
               <=> (decision.action \in {"INCREASE_SHORT", "DECREASE_SHORT"})

\* C24: every order placed for DECREASE_SHORT (reduceShortPosition) or
\* CLOSE_POSITIONS (closePosition) has reduceOnly = true, and every order
\* placed for INCREASE_SHORT (openShortPosition) is a market SELL with
\* reduceOnly = false; closePosition sells a LONG and buys a SHORT, for
\* abs(size).
C24_ReduceOnlyFlags ==
    \A i \in 1..Len(orders) :
        /\ orders[i].orderType = "MARKET"
        /\ decision.action \in {"INCREASE_SHORT", "DECREASE_SHORT", "CLOSE_POSITIONS"}
        /\ decision.action = "INCREASE_SHORT" =>
               /\ calls[Len(calls)] = "openShortPosition"
               /\ orders[i].side = "SELL"
               /\ ~orders[i].reduceOnly
               /\ orders[i].size = decision.sizeChange
        /\ decision.action = "DECREASE_SHORT" =>
               /\ calls[Len(calls)] = "reduceShortPosition"
               /\ orders[i].side = "BUY"
               /\ orders[i].reduceOnly
               /\ orders[i].size = decision.sizeChange
        /\ decision.action = "CLOSE_POSITIONS" =>
               /\ calls[Len(calls)] = "closePosition"
               /\ orders[i].reduceOnly
               /\ venuePosition.size > 0 => orders[i].side = "SELL"
               /\ venuePosition.size < 0 => orders[i].side = "BUY"
               /\ orders[i].size = Abs(venuePosition.size)
               /\ orders[i].size > 0

\* closePosition placed the order that closes a LONG
C24_Witness ==
    /\ pc = "done"
    /\ decision.action = "CLOSE_POSITIONS"
    /\ venuePosition.size > 0
    /\ Len(orders) = 1
    /\ orders[1].side = "SELL"
    /\ orders[1].reduceOnly
    /\ results[1].success

\* reduceShortPosition placed its reduce-only BUY
C24_WitnessReduce ==
    /\ pc = "done"
    /\ decision.action = "DECREASE_SHORT"
    /\ Len(orders) = 1
    /\ orders[1].side = "BUY"
    /\ orders[1].reduceOnly
    /\ results[1].success

\* openShortPosition placed its SELL
C24_WitnessOpen ==
    /\ pc = "done"
    /\ decision.action = "INCREASE_SHORT"
    /\ Len(orders) = 1
    /\ orders[1].side = "SELL"
    /\ ~orders[1].reduceOnly
    /\ results[1].success

\* C25: when the decision is NO_ACTION, updateHedgePosition returns a
\* successful ExecutionResult immediately: no order call (openShortPosition,
\* reduceShortPosition, closePosition) and no funding check is made.
C25_NoActionNoCalls ==
    decision.action = "NO_ACTION" =>
        /\ pc = "done"
        /\ results = <<ExecutionResult(TRUE, "NO_ACTION", NoRebalanceText, <<>>)>>
        /\ calls = <<"getHedgePosition", "getMarketData">>
        /\ orders = <<>>
        /\ fundingSeen = 0
        /\ failures \subseteq {"positionRead", "marketDataRead"}

\* a hedge within the threshold of a positive exposure, at a funding rate
\* beyond the tolerance: NO_ACTION was decided and returned
C25_Witness ==
    /\ decision.action = "NO_ACTION"
    /\ pc = "done"
    /\ lpPosition.token0Exposure > 0
    /\ ~hedgePosition.isNull
    /\ hedgePosition.size < 0
    /\ venueFunding > FundingTolerance
    /\ Len(results) = 1
    /\ results[1].success

\* C29: a failed hedge-position read is distinguished from 'no hedge': in
\* a tick whose position fetch fails the decision engine is not run with
\* hedgePosition = null, so no INCREASE_SHORT for the full exposure is
\* issued because of a read failure.  (Stated by its consequence: while the
\* venue holds a hedge, a tick whose position read failed neither decides
\* INCREASE_SHORT nor opens a short.)
C29_FailedReadIsNotNoHedge ==
    ("positionRead" \in failures /\ ~venuePosition.isNull /\ venuePosition.size < 0) =>
        /\ decision.action # "INCREASE_SHORT"
        /\ \A i \in 1..Len(orders) : orders[i] # openShortOrder(lpPosition.token0Exposure)

\* C36: the action recorded in the ExecutionResult that
\* updateHedgePosition returns always equals the action determineHedgeAction
\* decided for that tick, also when executing the action fails.
C36_ResultActionIsDecidedAction ==
    \A i \in 1..Len(results) :
        /\ decision # NoDecision
        /\ results[i].action = decision.action

----------------------------------------------------------------------------
(* SpecConverge: successive ticks of updateHedgePosition on a constant     *)
(* exposure, every read succeeding and the funding rate within tolerance   *)

\* ticks in one run
MaxConvergeTicks == 3

\* the body of the venue's answer to an order it took
AcceptedBody == CHOOSE b \in ResponseBodies : b.status = "success"

\* a reduce-only order is taken by the venue only when it shrinks the
\* position it meets
fillable(position, order) ==
    \/ ~order.reduceOnly
    \/ ~position.isNull /\ position.size < 0 /\ order.side = "BUY"
    \/ ~position.isNull /\ position.size > 0 /\ order.side = "SELL"

\* the venue's position after a market order filled in full
filled(position, order) ==
    LET size == IF position.isNull THEN 0 ELSE position.size
        after == IF order.side = "SELL" THEN size - order.size ELSE size + order.size
    IN  IF after = 0 THEN NullPosition ELSE Position(after)

\* the order the switch of updateHedgePosition places for a decision
\* (hedgeController.ts lines 141, 165)
orderFor(d) ==
    IF d.action = "INCREASE_SHORT" THEN openShortOrder(d.sizeChange)
                                   ELSE reduceShortOrder(d.sizeChange)

InitConverge ==
    /\ InitHedge
    /\ lpPosition.totalValueUSD > 0
    /\ venueFunding = 0

\* updateHedgePosition, lines 83-179, as one tick: the position is read,
\* the decision is made and its order, if any, is filled in full by the
\* venue or refused by it
updateHedgePosition_tick ==
    /\ Len(results) < MaxConvergeTicks
    /\ LET d == determineHedgeAction(lpPosition, venuePosition, rebalanceThreshold)
       IN  /\ hedgePosition' = venuePosition
           /\ decision' = d
           /\ IF returnsImmediately(d.action)
              THEN /\ results' = Append(results,
                         ExecutionResult(TRUE, d.action, NoRebalanceText, <<>>))
                   /\ UNCHANGED <<orders, venuePosition>>
              ELSE /\ orders' = Append(orders, orderFor(d))
                   /\ IF fillable(venuePosition, orderFor(d))
                      THEN /\ venuePosition' = filled(venuePosition, orderFor(d))
                           /\ results' = Append(results,
                                  caseResult(d.action, placeOrder(NoError, AcceptedBody)))
                      ELSE /\ results' = Append(results,
                                  caseResult(d.action,
                                      placeOrder(NoError,
                                          CHOOSE b \in ResponseBodies :
                                              b.status = "error" /\ b.error # <<>>)))
                           /\ UNCHANGED venuePosition
    /\ UNCHANGED <<lpPosition, rebalanceThreshold, pc, venueFunding, marketData,
                   fundingSeen, failures, calls>>
    /\ UNCHANGED <<outsideHedge, telemetryVars>>

NextConverge == updateHedgePosition_tick

SpecConverge == InitConverge /\ [][NextConverge]_vars

----------------------------------------------------------------------------
(* Claims about successive ticks (checked under SpecConverge) *)

\* C38: rebalancing converges in one step: if the exposure stays constant
\* and an INCREASE_SHORT or DECREASE_SHORT order fills in full for the
\* decided sizeChange, the decision of the next tick is NO_ACTION; the bot
\* never alternates between INCREASE_SHORT and DECREASE_SHORT.
C38_ConvergesInOneStep ==
    \A i \in 1..(Len(results) - 1) :
        (results[i].success /\ results[i].action \in {"INCREASE_SHORT", "DECREASE_SHORT"})
            => results[i + 1].action = "NO_ACTION"

----------------------------------------------------------------------------
(* SpecTick: updateHedgePosition with its order carried by the client:    *)
(* the order of the tick goes through placeOrder and makeRequest           *)

\* openShortPosition / reduceShortPosition / closePosition call placeOrder
\* (part_000 lines 275, 292, 316), which builds the body and calls
\* makeRequest('/trade', 'POST', requestData) with the default retries
placeOrder_call ==
    /\ pc = "order"
    /\ rpc = "off"
    /\ pc' = "placing"
    /\ calls' = Append(calls, "placeOrder")
    /\ rpc' = "start"
    /\ method' = "POST"
    /\ retries' = DefaultRetries
    /\ data' = requestData(orders[Len(orders)])
    /\ clock' \in ClockValues
    /\ UNCHANGED <<headers, sent>>
    /\ UNCHANGED <<attempt, waits, history, lastError, thrown, response, orderResponse>>
    /\ UNCHANGED <<decideVars, telemetryVars, botVars, readVars>>
    /\ UNCHANGED <<venuePosition, venueFunding, marketData, fundingSeen, failures,
                   orders, results>>

\* hedgeController.ts lines 141-155, 165-179, 188-202: the awaited order
\* response is mapped to the ExecutionResult
updateHedgePosition_placed ==
    /\ pc = "placing"
    /\ rpc = "done"
    /\ failures' = failures \cup (IF orderResponse.status = "success" THEN {}
                                                                      ELSE {"order"})
    /\ results' = Append(results, caseResult(decision.action, orderResponse))
    /\ pc' = "done"
    /\ UNCHANGED <<decideVars, venuePosition, venueFunding, marketData, fundingSeen,
                   calls, orders>>
    /\ UNCHANGED <<outsideHedge, telemetryVars>>

NextTick ==
    \/ updateHedgePosition_decide
    \/ updateHedgePosition_funding
    \/ updateHedgePosition_closeRead
    \/ placeOrder_call
    \/ makeRequest_sign
    \/ makeRequest_attempt
    \/ makeRequest_backoff
    \/ placeOrder_return
    \/ updateHedgePosition_placed

\* the ticks of InitHedge under one threshold and two funding rates, one
\* within the tolerance and one beyond it
InitTick ==
    /\ InitHedge
    /\ rebalanceThreshold = 10
    /\ venueFunding \in {0, 6}

SpecTick == InitTick /\ [][NextTick]_vars

----------------------------------------------------------------------------
(* Claims about the order of one tick (checked under SpecTick) *)

\* the /trade requests put on the wire during the tick
TradeRequests == {i \in 1..Len(sent) : sent[i].method = "POST"}

\* C13: within one tick an order is submitted to the venue at most once:
\* the executor makes zero or one order call per decision, and an order whose
\* placement fails is reported in the ExecutionResult and is not sent again
\* within the same tick.
C13_OrderSubmittedAtMostOnce ==
    /\ Len(orders) <= 1
    /\ Cardinality({i \in 1..Len(calls) : calls[i] = "placeOrder"}) <= 1
    /\ Cardinality(TradeRequests) <= 1
    /\ (pc = "done" /\ orderResponse.status = "error") =>
           /\ Len(results) = 1
           /\ ~results[1].success
           /\ results[1].error # <<>>

----------------------------------------------------------------------------
(* HoytBot (src/src/types.ts): main, initialize, start, the check timer   *)
(* and the check cycles it starts.  Every executeCheck call has a frame of *)
(* its own in `ticks`; the frames share the bot state and the venue.       *)

MaxBotExposure == 2
MaxBotToken1 == 1
MaxBotHedge == 2

\* executeCheck calls in one run
MaxTicks == 3

BotLPPositionOf(t0, t1) ==
    [token0Exposure |-> t0, token1Exposure |-> t1, totalValueUSD |-> t0 + t1,
     isNull |-> FALSE]

\* getCombinedLPPosition's answer when there are no positions or the chain
\* read failed (part_000 lines 585-600, 651-663)
EmptyLPPosition == BotLPPositionOf(0, 0)

ChainLPPositions ==
    {BotLPPositionOf(t0, t1) : t0 \in 0..MaxBotExposure, t1 \in 0..MaxBotToken1}

BotVenuePositions ==
    {NullPosition} \cup {Position(sz) : sz \in (-MaxBotHedge)..0}

\* state.errors.push(message): an entry of the log is modelled by its serial
\* number, counted from the entry the log holds before it
push(log) == Append(log, IF log = <<>> THEN 1 ELSE log[Len(log)] + 1)

\* an error monitor as start sets it up, lines 193-195: its
\* consecutiveErrorCount, and whether state.errors holds entries the
\* monitor has not met in a run of its own (at first, any entry of the log)
NewMonitor(log) == [count |-> 0, newErrors |-> log # <<>>]

\* every live monitor has an error recorded since it last ran
noted(ms) == [k \in DOMAIN ms |-> [ms[k] EXCEPT !.newErrors = TRUE]]

NoOrder == [side |-> "NONE", size |-> 0, orderType |-> "MARKET", reduceOnly |-> FALSE]

\* the frame of an executeCheck call at its first await; ordersSeen is the
\* number of orders the bot had placed when the call read the hedge position
NewTick ==
    [pc |-> "updatePositions", mdFailed |-> FALSE, lp |-> NullLPPosition,
     hedge |-> NullPosition, ordersSeen |-> 0, decision |-> NoDecision,
     order |-> NoOrder, placed |-> 0, result |-> NoResult]

\* updatePositions, lines 331-395: what state.lpPosition and
\* state.hedgePosition hold when it returns.  A failed market-data read
\* (HedgeController.getMarketData answers it with price 0) is thrown at
\* line 342, rethrown at line 348 and swallowed at line 390: nothing is
\* assigned.  Otherwise the LP read (empty on failure) and the hedge read
\* (null on failure) are assigned.
updatePositions(mdOk, lpOk, posOk) ==
    IF ~mdOk
    THEN [lp |-> stateLp, hedge |-> stateHedge]
    ELSE [lp |-> IF lpOk THEN chainLp ELSE EmptyLPPosition,
          hedge |-> IF posOk THEN venuePosition ELSE NullPosition]

\* line 284: the guard of the rebalance
hasLpPosition(lp) == ~lp.isNull /\ lp.totalValueUSD > 0

\* the venue's position after it filled a market order
fill(position, order) ==
    LET size == IF position.isNull THEN 0 ELSE position.size
        delta == IF order.side = "SELL" THEN -order.size ELSE order.size
        capped == IF ~order.reduceOnly THEN size + delta
                  ELSE IF size < 0 /\ delta > 0 THEN Min(0, size + delta)
                  ELSE IF size > 0 /\ delta < 0 THEN size - Min(size, -delta)
                  ELSE size
    IN  IF capped = 0 THEN NullPosition ELSE Position(capped)


\* ways makeRequest can end for an order that fails: the request timed out
\* on every attempt, or the venue answered status 'error'
OrderFailures ==
    { o \in RequestOutcomes :
          \/ o.thrown.message = TimeoutMessage
          \/ o.response.status = "error" /\ o.response.error # <<>> }

InitBot ==
    /\ lpPosition = LPPositionOf(0, 0)
    /\ hedgePosition = NullPosition
    /\ rebalanceThreshold = 5
    /\ decision = NoDecision
    /\ pc = "off"
    /\ venuePosition \in BotVenuePositions
    /\ venueFunding \in {0, 6}
    /\ marketData = [price |-> 0, fundingRate |-> 0]
    /\ fundingSeen = 0
    /\ failures = {}
    /\ calls = <<>>
    /\ orders = <<>>
    /\ results = <<>>
    /\ ClientIdle
    /\ WireIdle
    /\ TelemetryIdle
    /\ ReadIdle
    /\ mainPc = "constructed"
    /\ status = "INITIALIZED"
    /\ interval = FALSE
    /\ stateLp = NullLPPosition
    /\ stateHedge = NullPosition
    /\ errors = <<>>
    /\ lastAction = NoResult
    /\ ticks = <<>>
    /\ chainLp \in ChainLPPositions
    /\ botOrders = <<>>
    /\ TimersIdle

\* what no action of the bot changes
botFrame ==
    <<decideVars, pc, venueFunding, marketData, fundingSeen, failures, calls, orders,
      results, clientVars, wireVars, telemetryVars, readVars, chainLp>>

\* main, lines 465-485, and initialize, lines 135-166: the watcher is set
\* up, market data is read and updatePositions runs; a failure in the set-up
\* puts the bot in ERROR and main exits the process.
initialize ==
    /\ mainPc = "constructed"
    /\ \/ /\ \E mdOk \in BOOLEAN, lpOk \in BOOLEAN, posOk \in BOOLEAN :
                /\ stateLp' = updatePositions(mdOk, lpOk, posOk).lp
                /\ stateHedge' = updatePositions(mdOk, lpOk, posOk).hedge
          /\ status' = "INITIALIZED"
          /\ mainPc' = "initialized"
          /\ UNCHANGED <<errors, monitors>>
       \/ /\ status' = "ERROR"
          /\ errors' = push(errors)
          /\ monitors' = noted(monitors)
          /\ mainPc' = "exited"
          /\ UNCHANGED <<stateLp, stateHedge>>
    /\ UNCHANGED <<interval, lastAction, ticks, botOrders, venuePosition>>
    /\ UNCHANGED <<botFrame, strayTimers, starts>>

\* start, lines 176-180: the first check is awaited
start_firstCheck ==
    /\ mainPc = "initialized"
    /\ status = "INITIALIZED"
    /\ ticks' = Append(ticks, NewTick)
    /\ mainPc' = "firstCheck"
    /\ UNCHANGED <<status, interval, stateLp, stateHedge, errors, lastAction, botOrders,
                   venuePosition>>
    /\ UNCHANGED <<botFrame, timerVars>>

\* start, lines 185-213: after the first check the check timer is set and
\* the bot is RUNNING
start_setInterval ==
    /\ mainPc = "firstCheck"
    /\ ticks[Len(ticks)].pc = "done"
    /\ interval' = TRUE
    /\ strayTimers' = strayTimers + (IF interval THEN 1 ELSE 0)
    /\ monitors' = Append(monitors, NewMonitor(errors))
    /\ status' = "RUNNING"
    /\ mainPc' = "running"
    /\ UNCHANGED <<stateLp, stateHedge, errors, lastAction, ticks, botOrders,
                   venuePosition>>
    /\ UNCHANGED <<botFrame, starts>>

\* lines 185-190: a live check timer fires and its callback calls
\* executeCheck; the promise is not awaited and nothing looks at the cycles
\* still running
timerFires ==
    /\ interval \/ strayTimers > 0
    /\ Len(ticks) < MaxTicks
    /\ ticks' = Append(ticks, NewTick)
    /\ UNCHANGED <<mainPc, status, interval, stateLp, stateHedge, errors, lastAction,
                   botOrders, venuePosition>>
    /\ UNCHANGED <<botFrame, timerVars>>

\* main, lines 472-482, and stop, lines 254-264: SIGINT or SIGTERM stops
\* the bot and exits the process
shutdown ==
    /\ mainPc # "exited"
    /\ interval' = FALSE
    /\ status' = "STOPPED"
    /\ mainPc' = "exited"
    /\ UNCHANGED <<stateLp, stateHedge, errors, lastAction, ticks, botOrders,
                   venuePosition>>
    /\ UNCHANGED <<botFrame, timerVars>>

\* executeCheck, lines 275-284 and 310: updatePositions settles and the
\* guard of the rebalance is evaluated on state.lpPosition; when it holds,
\* updateHedgePosition(this.state.lpPosition) is called.
executeCheck_updatePositions(i) ==
    /\ ticks[i].pc = "updatePositions"
    /\ \E mdOk \in BOOLEAN, lpOk \in BOOLEAN, posOk \in BOOLEAN :
        LET now == updatePositions(mdOk, lpOk, posOk)
        IN  /\ stateLp' = now.lp
            /\ stateHedge' = now.hedge
            /\ ticks' = [ticks EXCEPT ![i] =
                   [@ EXCEPT !.mdFailed = ~mdOk,
                             !.lp = IF hasLpPosition(now.lp) THEN now.lp ELSE @,
                             !.pc = IF hasLpPosition(now.lp) THEN "hedge" ELSE "done"]]
    /\ UNCHANGED <<mainPc, status, interval, errors, lastAction, botOrders,
                   venuePosition>>
    /\ UNCHANGED <<botFrame, timerVars>>

\* the result is stored and judged, executeCheck lines 287-305
recordResult(i, r) ==
    /\ lastAction' = r
    /\ errors' = IF r.success THEN errors ELSE push(errors)
    /\ monitors' = IF r.success THEN monitors ELSE noted(monitors)
    /\ ticks' = [ticks EXCEPT ![i] =
           [@ EXCEPT !.result = r,
                     !.pc = IF r.success /\ r.action # "NO_ACTION" THEN "refresh"
                                                                    ELSE "done"]]

\* updateHedgePosition, hedgeController.ts lines 83-119 and the head of each
\* case, for the check cycle i
executeCheck_decide(i) ==
    /\ ticks[i].pc = "hedge"
    /\ \E posOk \in BOOLEAN :
        LET hedge == IF posOk THEN venuePosition ELSE NullPosition
            d == determineHedgeAction(ticks[i].lp, hedge, rebalanceThreshold)
        IN  IF d.action = "NO_ACTION"
            THEN /\ lastAction' = ExecutionResult(TRUE, d.action, NoRebalanceText, <<>>)
                 /\ ticks' = [ticks EXCEPT ![i] =
                        [@ EXCEPT !.hedge = hedge, !.ordersSeen = Len(botOrders),
                                  !.decision = d, !.pc = "done",
                                  !.result = ExecutionResult(TRUE, d.action,
                                                             NoRebalanceText, <<>>)]]
            ELSE /\ ticks' = [ticks EXCEPT ![i] =
                        [@ EXCEPT !.hedge = hedge, !.ordersSeen = Len(botOrders),
                                  !.decision = d,
                                  !.pc = IF fundingGated(d.action) THEN "funding"
                                         ELSE IF d.action = "CLOSE_POSITIONS"
                                              THEN "closeRead" ELSE "order",
                                  !.order = IF d.action = "DECREASE_SHORT"
                                            THEN reduceShortOrder(d.sizeChange)
                                            ELSE @]]
                 /\ UNCHANGED lastAction
    /\ UNCHANGED <<mainPc, status, interval, stateLp, stateHedge, errors, botOrders,
                   venuePosition>>
    /\ UNCHANGED <<botFrame, timerVars>>

\* hedgeController.ts lines 121-139: checkFundingRate settles
executeCheck_funding(i) ==
    /\ ticks[i].pc = "funding"
    /\ \E mdOk \in BOOLEAN :
        LET rate == IF mdOk THEN venueFunding ELSE 0
        IN  IF ~isFundingRateAcceptable(rate, FundingTolerance)
            THEN recordResult(i, ExecutionResult(FALSE, ticks[i].decision.action,
                                                 FundingExceedsText, <<>>))
            ELSE /\ ticks' = [ticks EXCEPT ![i] =
                        [@ EXCEPT !.pc = "order",
                                  !.order = openShortOrder(ticks[i].decision.sizeChange)]]
                 /\ UNCHANGED <<lastAction, errors, monitors>>
    /\ UNCHANGED <<mainPc, status, interval, stateLp, stateHedge, botOrders,
                   venuePosition>>
    /\ UNCHANGED <<botFrame, strayTimers, starts>>

\* closePosition's read, part_000 lines 305-315
executeCheck_closeRead(i) ==
    /\ ticks[i].pc = "closeRead"
    /\ \/ recordResult(i, ExecutionResult(FALSE, "NO_ACTION", <<>>, FetchFailedMessage))
       \/ /\ nothingToClose(venuePosition)
          /\ recordResult(i, ExecutionResult(TRUE, "CLOSE_POSITIONS", ClosedText, <<>>))
       \/ /\ ~nothingToClose(venuePosition)
          /\ ticks' = [ticks EXCEPT ![i] =
                 [@ EXCEPT !.pc = "order", !.ordersSeen = Len(botOrders),
                           !.order = closeOrder(venuePosition)]]
          /\ UNCHANGED <<lastAction, errors, monitors>>
    /\ UNCHANGED <<mainPc, status, interval, stateLp, stateHedge, botOrders,
                   venuePosition>>
    /\ UNCHANGED <<botFrame, strayTimers, starts>>

\* placeOrder settles: the venue filled the order, or the order failed
executeCheck_order(i) ==
    /\ ticks[i].pc = "order"
    /\ \/ /\ venuePosition' = fill(venuePosition, ticks[i].order)
          /\ botOrders' = Append(botOrders, [tick |-> i, order |-> ticks[i].order])
          /\ lastAction' = caseResult(ticks[i].decision.action,
                                      placeOrder(NoError, AcceptedBody))
          /\ ticks' = [ticks EXCEPT ![i] =
                 [@ EXCEPT !.placed = @ + 1, !.pc = "refresh",
                           !.result = caseResult(ticks[i].decision.action,
                                          placeOrder(NoError, AcceptedBody))]]
          /\ UNCHANGED <<errors, monitors>>
       \/ \E o \in OrderFailures :
            /\ lastAction' = caseResult(ticks[i].decision.action,
                                        placeOrder(o.thrown, o.response))
            /\ errors' = push(errors)
            /\ monitors' = noted(monitors)
            /\ ticks' = [ticks EXCEPT ![i] =
                   [@ EXCEPT !.placed = @ + 1, !.pc = "done",
                             !.result = caseResult(ticks[i].decision.action,
                                            placeOrder(o.thrown, o.response))]]
            /\ UNCHANGED <<venuePosition, botOrders>>
    /\ UNCHANGED <<mainPc, status, interval, stateLp, stateHedge>>
    /\ UNCHANGED <<botFrame, strayTimers, starts>>

\* executeCheck lines 293-299: updatePositions after a rebalance
executeCheck_refresh(i) ==
    /\ ticks[i].pc = "refresh"
    /\ \E mdOk \in BOOLEAN, lpOk \in BOOLEAN, posOk \in BOOLEAN :
        /\ stateLp' = updatePositions(mdOk, lpOk, posOk).lp
        /\ stateHedge' = updatePositions(mdOk, lpOk, posOk).hedge
    /\ ticks' = [ticks EXCEPT ![i] = [@ EXCEPT !.pc = "done"]]
    /\ UNCHANGED <<mainPc, status, interval, errors, lastAction, botOrders,
                   venuePosition>>
    /\ UNCHANGED <<botFrame, timerVars>>

\* one step of one of the check cycles in flight
executeCheck ==
    /\ mainPc # "exited"
    /\ \E i \in 1..Len(ticks) :
        \/ executeCheck_updatePositions(i)
        \/ executeCheck_decide(i)
        \/ executeCheck_funding(i)
        \/ executeCheck_closeRead(i)
        \/ executeCheck_order(i)
        \/ executeCheck_refresh(i)

NextBot ==
    \/ initialize
    \/ start_firstCheck
    \/ start_setInterval
    \/ timerFires
    \/ shutdown
    \/ executeCheck

SpecBot == InitBot /\ [][NextBot]_vars

----------------------------------------------------------------------------
(* Claims about the check cycles (checked under SpecBot) *)

\* the check cycles that have started and not finished
InFlight == {i \in 1..Len(ticks) : ticks[i].pc # "done"}

\* C14: a tick that cannot obtain market data aborts that tick's
\* reconciliation: in a check cycle whose market-data fetch fails no hedge
\* decision is executed and no order is placed.
C14_NoMarketDataNoReconciliation ==
    \A i \in 1..Len(ticks) :
        ticks[i].mdFailed =>
            /\ ticks[i].decision = NoDecision
            /\ ticks[i].placed = 0

\* C15: ticks are not reentrant: at most one check cycle (executeCheck) is
\* in flight at any time.
C15_OneCheckInFlight == Cardinality(InFlight) <= 1

\* C28: if the LP position becomes empty (total USD value 0) while a hedge
\* position is open, a subsequent check cycle executes CLOSE_POSITIONS, so
\* the hedge does not stay open without exposure.  Stated for a run in
\* which the liquidity on chain is empty throughout: once MaxTicks check
\* cycles have run to their end, one of them has decided CLOSE_POSITIONS or
\* no hedge is open.
C28_EmptyLpClosesHedge ==
    ( /\ chainLp.totalValueUSD = 0
      /\ Len(ticks) = MaxTicks
      /\ InFlight = {} )
        => \/ nothingToClose(venuePosition)
           \/ \E i \in 1..Len(ticks) : ticks[i].decision.action = "CLOSE_POSITIONS"

\* C39: no two orders are placed on the basis of the same hedge-position
\* snapshot: between a tick's hedge-position read and the order that tick
\* places, no other tick places an order.
C39_NoOrderBetweenReadAndOrder ==
    \A k \in 1..Len(botOrders) :
        ticks[botOrders[k].tick].ordersSeen = k - 1

\* the check cycles in which something has failed: the position update
\* (its market-data read) or the hedge update
FailedCycles ==
    {i \in 1..Len(ticks) :
        \/ ticks[i].mdFailed
        \/ ticks[i].result # NoResult /\ ~ticks[i].result.success}

\* C31: executeCheck never changes the bot status, and whatever fails
\* inside a check cycle (position update, hedge update), the failure is
\* recorded in state.errors: every step of a check cycle leaves
\* state.status as it was and leaves at least one entry in state.errors for
\* each cycle in which something has failed.
C31_FailuresRecordedStatusKept ==
    [][ (Len(ticks') = Len(ticks) /\ ticks' # ticks) =>
            /\ status' = status
            /\ Cardinality(FailedCycles') <= Len(errors') ]_vars

----------------------------------------------------------------------------
(* SpecUpdate: successive calls of HoytBot.updatePositions on one bot      *)

InitUpdate ==
    /\ lpPosition = LPPositionOf(0, 0)
    /\ hedgePosition = NullPosition
    /\ rebalanceThreshold = 5
    /\ decision = NoDecision
    /\ pc = "off"
    /\ venuePosition \in BotVenuePositions
    /\ venueFunding = 0
    /\ marketData = [price |-> 0, fundingRate |-> 0]
    /\ fundingSeen = 0
    /\ failures = {}
    /\ calls = <<>>
    /\ orders = <<>>
    /\ results = <<>>
    /\ ClientIdle
    /\ WireIdle
    /\ TelemetryIdle
    /\ ReadIdle
    /\ mainPc = "constructed"
    /\ status = "INITIALIZED"
    /\ interval = FALSE
    /\ stateLp = NullLPPosition
    /\ stateHedge = NullPosition
    /\ errors = <<>>
    /\ lastAction = NoResult
    /\ ticks = <<>>
    /\ chainLp \in ChainLPPositions
    /\ botOrders = <<>>
    /\ TimersIdle

\* the reads of one updatePositions call that failed
failedReads(mdOk, lpOk, posOk) ==
    IF ~mdOk THEN {"marketDataRead"}
    ELSE (IF lpOk THEN {} ELSE {"lpRead"}) \cup (IF posOk THEN {} ELSE {"positionRead"})

\* updatePositions, types.ts lines 331-395: one call, with the reads that
\* failed in it noted in `failures`
updatePositions_call ==
    /\ \E mdOk \in BOOLEAN, lpOk \in BOOLEAN, posOk \in BOOLEAN :
        /\ stateLp' = updatePositions(mdOk, lpOk, posOk).lp
        /\ stateHedge' = updatePositions(mdOk, lpOk, posOk).hedge
        /\ failures' = failedReads(mdOk, lpOk, posOk)
    /\ UNCHANGED <<mainPc, status, interval, errors, lastAction, ticks, chainLp,
                   botOrders, timerVars>>
    /\ UNCHANGED <<decideVars, pc, venuePosition, venueFunding, marketData, fundingSeen,
                   calls, orders, results>>
    /\ UNCHANGED <<clientVars, wireVars, telemetryVars, readVars>>

\* between two calls the liquidity on chain and the position at the venue
\* may have changed
positionsMove ==
    /\ chainLp' \in ChainLPPositions
    /\ venuePosition' \in BotVenuePositions
    /\ UNCHANGED <<mainPc, status, interval, stateLp, stateHedge, errors, lastAction,
                   ticks, botOrders, timerVars>>
    /\ UNCHANGED <<decideVars, pc, venueFunding, marketData, fundingSeen, failures,
                   calls, orders, results>>
    /\ UNCHANGED <<clientVars, wireVars, telemetryVars, readVars>>

NextUpdate ==
    \/ updatePositions_call
    \/ positionsMove

SpecUpdate == InitUpdate /\ [][NextUpdate]_vars

----------------------------------------------------------------------------
(* Claims about updatePositions (checked under SpecUpdate) *)

\* C27: on a read failure the bot falls back to the last-known-good value:
\* when the LP-position read or the hedge-position read of updatePositions
\* fails, state.lpPosition / state.hedgePosition keeps its previous value
\* instead of being replaced by an empty or null one.  (Stated for a call
\* before which the field holds a value read earlier.)
C27_LastKnownGood ==
    [][ /\ ("lpRead" \in failures' /\ ~stateLp.isNull) => stateLp' = stateLp
        /\ ("positionRead" \in failures' /\ ~stateHedge.isNull)
               => stateHedge' = stateHedge ]_vars

----------------------------------------------------------------------------
(* SpecLifecycle: the exported class HoytBot driven through its public     *)
(* methods initialize, start and stop, called in any order                 *)

\* failed calls of initialize and start in one run
MaxFailedCalls == 2

\* what the caller has seen last when none of its calls is pending: the
\* constructor, or the return or throw of initialize, start or stop
BetweenCalls == {"constructed", "initialized", "failed", "stopped", "running"}

\* initialize, types.ts lines 135-166: validateConfig, the watcher set-up
\* and the first reads succeed and status becomes INITIALIZED, or one of
\* them throws, status becomes ERROR and the error is rethrown
initialize_call ==
    /\ mainPc \in BetweenCalls
    /\ \/ /\ \E mdOk \in BOOLEAN, lpOk \in BOOLEAN, posOk \in BOOLEAN :
                /\ stateLp' = updatePositions(mdOk, lpOk, posOk).lp
                /\ stateHedge' = updatePositions(mdOk, lpOk, posOk).hedge
          /\ status' = "INITIALIZED"
          /\ mainPc' = "initialized"
          /\ UNCHANGED <<errors, monitors>>
       \/ /\ Len(errors) < MaxFailedCalls
          /\ status' = "ERROR"
          /\ errors' = push(errors)
          /\ monitors' = noted(monitors)
          /\ mainPc' = "failed"
          /\ UNCHANGED <<stateLp, stateHedge>>
    /\ UNCHANGED <<interval, lastAction, ticks, botOrders, venuePosition>>
    /\ UNCHANGED <<botFrame, strayTimers, starts>>

\* start, lines 171-182 and 215-223: the guard on state.status; the first
\* check is begun, or 'Bot must be initialized before starting' is thrown,
\* caught (status ERROR, the message pushed) and rethrown
start_call ==
    /\ mainPc \in BetweenCalls
    /\ Len(ticks) < MaxTicks
    /\ Len(errors) < MaxFailedCalls
    /\ IF status = "INITIALIZED"
       THEN /\ ticks' = Append(ticks, NewTick)
            /\ mainPc' = "firstCheck"
            /\ UNCHANGED <<status, errors, monitors>>
       ELSE /\ status' = "ERROR"
            /\ errors' = push(errors)
            /\ monitors' = noted(monitors)
            /\ mainPc' = "failed"
            /\ UNCHANGED ticks
    /\ UNCHANGED <<interval, stateLp, stateHedge, lastAction, botOrders, venuePosition>>
    /\ UNCHANGED <<botFrame, strayTimers, starts>>

\* stop, lines 254-264
stop_call ==
    /\ mainPc \in BetweenCalls
    /\ interval' = FALSE
    /\ status' = "STOPPED"
    /\ mainPc' = "stopped"
    /\ UNCHANGED <<stateLp, stateHedge, errors, lastAction, ticks, botOrders,
                   venuePosition>>
    /\ UNCHANGED <<botFrame, timerVars>>

NextLifecycle ==
    \/ initialize_call
    \/ start_call
    \/ start_setInterval
    \/ timerFires
    \/ stop_call
    \/ executeCheck

\* a constructed bot, at a funding rate within the tolerance, with no
\* position at the venue and an exposure of 1 on chain
InitLifecycle ==
    /\ InitBot
    /\ venueFunding = 0
    /\ venuePosition = NullPosition
    /\ chainLp = BotLPPositionOf(1, 0)

SpecLifecycle == InitLifecycle /\ [][NextLifecycle]_vars

----------------------------------------------------------------------------
(* Claims about start (checked under SpecLifecycle) *)

\* C30: start() begins the check loop only on a bot whose initialize() has
\* completed successfully; on any other bot it throws 'Bot must be
\* initialized before starting' and schedules no timer.
C30_StartOnlyAfterInitialize ==
    [][ /\ (mainPc \in BetweenCalls /\ mainPc' = "firstCheck")
               => mainPc = "initialized"
        /\ (mainPc \in BetweenCalls \ {"initialized"} /\ mainPc' = "running")
               => FALSE
        /\ (mainPc \in BetweenCalls \ {"initialized"} /\ ~interval) => ~interval' ]_vars

\* C34: the check timer is scheduled only while the status is RUNNING: in
\* every state reachable by any sequence of initialize, start and stop, a
\* status of INITIALIZED, STOPPED or ERROR implies that no check timer is
\* active.
C34_TimerOnlyWhileRunning ==
    status \in {"INITIALIZED", "STOPPED", "ERROR"} => (~interval /\ strayTimers = 0)

\* C40: after stop() has returned, and until the caller invokes start
\* again, the bot places no further order and starts no further check
\* cycle.
C40_NothingAfterStop ==
    [][ (mainPc = "stopped" /\ mainPc' = "stopped") =>
            /\ botOrders' = botOrders
            /\ Len(ticks') = Len(ticks) ]_vars

----------------------------------------------------------------------------
(* SpecMonitor: the bot over many monitoring periods: start, stop, the     *)
(* check timers, the error monitors and the restart they trigger.  A check *)
(* cycle is taken as a whole and only its push to state.errors is kept;    *)
(* timers are untimed, each live timer may fire at any moment.             *)

\* calls of start(), by the caller or by restart(), in one run
MaxStarts == 2

\* serial number of the last entry pushed to state.errors in one run
MaxSerial == 52

\* line 194
maxConsecutiveErrors == 5

\* lines 208-209: the log is cut when longer than 50 entries, to 20
TrimAbove == 50
TrimKeep == 20

canPush(log) == IF log = <<>> THEN TRUE ELSE log[Len(log)] < MaxSerial

\* a start() call past its guard, awaiting the first check, or a restart()
\* awaiting initialize()
Frame(at, byRestart) == [pc |-> at, restart |-> byRestart]

without(frames, f) == [i \in 1..(Len(frames) - 1) |-> IF i < f THEN frames[i] ELSE frames[i + 1]]

slice_head(log, n) == SubSeq(log, 1, n)

\* Array.prototype.slice(-n) on an array longer than n
slice(log, n) == SubSeq(log, Len(log) - n + 1, Len(log))

\* lines 208-210
trim(log) == IF Len(log) > TrimAbove THEN slice(log, TrimKeep) ELSE log

\* start(), lines 171-182 and 215-223, called by the caller: past the guard
\* the first check is awaited; otherwise the error is thrown, caught
\* (status ERROR, the message pushed) and rethrown
start_guard ==
    /\ mainPc \in BetweenCalls
    /\ Len(starts) + Len(monitors) < MaxStarts
    /\ IF status = "INITIALIZED"
       THEN /\ starts' = Append(starts, Frame("firstCheck", FALSE))
            /\ mainPc' = "firstCheck"
            /\ UNCHANGED <<status, errors, monitors>>
       ELSE /\ canPush(errors)
            /\ status' = "ERROR"
            /\ errors' = push(errors)
            /\ monitors' = noted(monitors)
            /\ mainPc' = "failed"
            /\ UNCHANGED starts
    /\ UNCHANGED <<interval, strayTimers, stateLp, stateHedge, lastAction, ticks,
                   botOrders, venuePosition>>
    /\ UNCHANGED botFrame

\* start(), lines 179-213: the first check settles, with or without a push
\* to state.errors; the check timer and an error monitor are set, the
\* status becomes RUNNING
start_setTimers ==
    \E f \in 1..Len(starts), failed \in BOOLEAN :
        /\ starts[f].pc = "firstCheck"
        /\ failed => canPush(errors)
        /\ errors' = IF failed THEN push(errors) ELSE errors
        /\ monitors' = Append(IF failed THEN noted(monitors) ELSE monitors,
                               NewMonitor(errors'))
        /\ strayTimers' = strayTimers + (IF interval THEN 1 ELSE 0)
        /\ interval' = TRUE
        /\ status' = "RUNNING"
        /\ starts' = without(starts, f)
        /\ mainPc' = IF starts[f].restart THEN mainPc ELSE "running"
        /\ UNCHANGED <<stateLp, stateHedge, lastAction, ticks, botOrders, venuePosition>>
        /\ UNCHANGED botFrame

\* lines 185-190 and executeCheck as a whole: a live check timer fires and
\* the cycle it starts ends with or without a push to state.errors
checkCycle ==
    /\ interval \/ strayTimers > 0
    /\ \E failed \in BOOLEAN :
        /\ failed => canPush(errors)
        /\ errors' = IF failed THEN push(errors) ELSE errors
        /\ monitors' = IF failed THEN noted(monitors) ELSE monitors
    /\ UNCHANGED <<mainPc, status, interval, strayTimers, starts, stateLp, stateHedge,
                   lastAction, ticks, botOrders, venuePosition>>
    /\ UNCHANGED botFrame

\* the callback of an error monitor, lines 195-211, with the synchronous
\* part of restart(), lines 229-241, when it is called: stop(), the log
\* emptied, status INITIALIZED, initialize() begun
errorMonitor ==
    \E k \in 1..Len(monitors) :
        LET counted == errors # <<>>
            count == IF counted THEN monitors[k].count + 1 ELSE 0
            restarts == counted /\ count >= maxConsecutiveErrors
        IN  /\ restarts => Len(starts) + Len(monitors) < MaxStarts
            /\ monitors' = [monitors EXCEPT ![k] =
                   [count |-> IF restarts THEN 0 ELSE count, newErrors |-> FALSE]]
            /\ IF restarts
               THEN /\ interval' = FALSE
                    /\ status' = "INITIALIZED"
                    /\ errors' = trim(<<>>)
                    /\ starts' = Append(starts, Frame("initialize", TRUE))
               ELSE /\ errors' = trim(errors)
                    /\ UNCHANGED <<interval, status, starts>>
            /\ UNCHANGED <<mainPc, strayTimers, stateLp, stateHedge, lastAction, ticks,
                           botOrders, venuePosition>>
            /\ UNCHANGED botFrame

\* restart(), lines 240-248: initialize() settles.  When it succeeded
\* start() is called and passes its guard on the status initialize() has
\* just set; when it threw, initialize()'s catch and restart()'s catch each
\* set ERROR and push a message
restart_initialized ==
    \E f \in 1..Len(starts) :
        /\ starts[f].pc = "initialize"
        /\ \/ /\ status' = "INITIALIZED"
              /\ starts' = [starts EXCEPT ![f] = Frame("firstCheck", TRUE)]
              /\ UNCHANGED <<errors, monitors>>
           \/ /\ canPush(push(errors))
              /\ status' = "ERROR"
              /\ errors' = push(push(errors))
              /\ monitors' = noted(monitors)
              /\ starts' = without(starts, f)
        /\ UNCHANGED <<mainPc, interval, strayTimers, stateLp, stateHedge, lastAction,
                       ticks, botOrders, venuePosition>>
        /\ UNCHANGED botFrame

NextMonitor ==
    \/ start_guard
    \/ start_setTimers
    \/ checkCycle
    \/ errorMonitor
    \/ restart_initialized
    \/ stop_call

SpecMonitor == InitLifecycle /\ [][NextMonitor]_vars

----------------------------------------------------------------------------
(* Claims about the timers and the error monitor (checked under            *)
(* SpecMonitor)                                                            *)

\* the error monitor k has run in this step
MonitorRan(k) ==
    /\ monitors'[k] # monitors[k]
    /\ ~monitors'[k].newErrors

\* C32: the error monitor counts a monitoring period toward the
\* 5-consecutive-errors restart only if new errors were recorded since its
\* previous check; a period without new errors resets the count to 0.
C32_CountsOnlyNewErrors ==
    [][ \A k \in 1..Len(monitors) :
            /\ monitors'[k].count > monitors[k].count => monitors[k].newErrors
            /\ (MonitorRan(k) /\ ~monitors[k].newErrors) => monitors'[k].count = 0 ]_vars

\* C33: the in-memory error log is bounded: after every run of the error
\* monitor state.errors holds at most 50 entries, and when it is trimmed
\* the 20 most recent entries are kept in order.
C33_ErrorLogBounded ==
    [][ \A k \in 1..Len(monitors) :
            MonitorRan(k) =>
                /\ Len(errors') <= TrimAbove
                /\ (Len(errors') < Len(errors) /\ errors' # <<>>) =>
                       /\ Len(errors') = TrimKeep
                       /\ \A i \in 1..TrimKeep :
                              errors'[i] = errors[Len(errors) - TrimKeep + i] ]_vars

\* the log has been trimmed: it holds 20 entries and the oldest entries it
\* had are gone
C33_Witness == Len(errors) = TrimKeep /\ errors[1] = TrimAbove + 1 - TrimKeep + 1

\* C35: at any time there is at most one active check timer and at most
\* one active error-monitor timer, after any sequence of start, stop and
\* automatic restarts; stop() leaves no timer of the bot running.
C35_OneTimerEach ==
    /\ strayTimers + (IF interval THEN 1 ELSE 0) <= 1
    /\ Len(monitors) <= 1
    /\ status = "STOPPED" => (~interval /\ strayTimers = 0 /\ monitors = <<>>)

====
